---- MODULE Spec2Model ----
(***************************************************************************)
(* A model of backend/main.py of APA_Formatter: the request handler        *)
(* format_apa (line splitting, the fixed 7-line title block, the           *)
(* references split, the docx and the markup renderers) and the reference  *)
(* parser format_apa_reference_with_formatting_and_url with its helpers.   *)
(*                                                                         *)
(* Text is modelled by TLA+ strings, read with Len, SubSeq and \o.  The    *)
(* en dash (U+2013) is written "~" in this module, because a TLA+ string   *)
(* literal holds ASCII only; no input of the model holds a tilde.          *)
(***************************************************************************)
EXTENDS Integers, Sequences, FiniteSets, TLC

VARIABLES
    pc,              \* position of the request in format_apa
    text,            \* the request's text field: its lines (text.split('\n')), or NoText
    file,            \* the request's file field: the texts of its paragraphs, or NoFile
    output_format,   \* "docx" or "text"
    nonempty_lines,  \* main.py:457
    title_block,     \* main.py:464
    main_body,       \* main.py:473/476, reassigned at main.py:573
    references,      \* main.py:474/477
    abstract_lines,  \* the lines the abstract page consumed (main_body[1], main_body[2])
    consumed,        \* the "abstract" line the abstract page consumed (main_body[0])
    rendered,        \* docx: the paragraphs added to doc; markup: the list formatted
    status,          \* HTTP status of the response, 0 while the request runs
    ref,             \* the local ref of format_apa_reference_with_formatting_and_url
    ref_in,          \* the argument it was called with
    authors,         \* formatted_authors, main.py:323-324
    italics,         \* fmt['italics']
    url,             \* the local url
    sort_key,        \* apa_sort_key of the argument
    step,            \* the position in format_apa_reference_with_formatting_and_url
    case_arg,        \* the argument of title_case and of detect_heading
    case_out,        \* what title_case returned
    case_level,   \* what detect_heading returned
    case_pc,         \* which of the two was called
    hf_key,          \* whether HF_API_KEY is set, main.py:117
    hf_text,         \* the argument of huggingface_format_text
    hf_reply,        \* what requests.post did: the exception raised, or the response
    hf_exc,          \* the exception raised inside the try block, or None
    hf_result,       \* what huggingface_format_text returned
    hf_pc,           \* the position in huggingface_format_text
    img_dir,         \* the working directory: the content of each temp_img_<index>.png
    img_pc,          \* per worker process: the position in the docx body loop
    img_idx,         \* per worker process: body_idx, main.py:589
    img_left,        \* per worker process: the body paragraphs still to render
    img_pics,        \* per worker process: the pictures added to its document
    img_status       \* per worker process: the status of its response, 0 while it runs

\* the variables of a request
req_vars == <<pc, text, file, output_format, nonempty_lines, title_block, main_body,
              references, abstract_lines, consumed, rendered, status>>

\* the variables of a call of the reference parser
ref_vars == <<ref, ref_in, authors, italics, url, sort_key, step>>

\* the variables of a call of title_case or of detect_heading
case_vars == <<case_arg, case_out, case_level, case_pc>>

\* the variables of a call of huggingface_format_text
hf_vars == <<hf_key, hf_text, hf_reply, hf_exc, hf_result, hf_pc>>

\* the variables of the worker processes that insert the images of their documents
img_vars == <<img_dir, img_pc, img_idx, img_left, img_pics, img_status>>

\* the variables of the calls followed apart from a request
aux_vars == <<case_vars, hf_vars, img_vars>>

vars == <<req_vars, ref_vars, aux_vars>>

\* None where Python has a str or None
None == "None"
\* None for the text field: no str splits into no line at all
NoText == <<>>
\* None for the file field, and an uploaded document with the paragraphs ps
NoFile == [uploaded |-> FALSE, paragraphs |-> <<>>]
File(ps) == [uploaded |-> TRUE, paragraphs |-> ps]

(***************************************************************************)
(* Assignment.  With(v, LAMBDA x : e) is e with x = v, v computed once,    *)
(* as a Python statement x = v before the statements that read x.          *)
(***************************************************************************)
With(v, F(_)) == CHOOSE r \in {F(x) : x \in {v}} : TRUE
With2(v, w, F(_, _)) == CHOOSE r \in {F(x, y) : x \in {v}, y \in {w}} : TRUE

(***************************************************************************)
(* Python str operations, as far as main.py uses them.                     *)
(***************************************************************************)
Ch(s, i) == SubSeq(s, i, i)

LowerLetters == "abcdefghijklmnopqrstuvwxyz"
UpperLetters == "ABCDEFGHIJKLMNOPQRSTUVWXYZ"
DigitChars == "0123456789"

CharsOf(s) == {Ch(s, i) : i \in 1..Len(s)}
LowerSet == CharsOf(LowerLetters)
UpperSet == CharsOf(UpperLetters)
DigitSet == CharsOf(DigitChars)

islower_ch(c) == c \in LowerSet
isupper_ch(c) == c \in UpperSet
isalpha_ch(c) == With(c, LAMBDA x : x \in LowerSet \/ x \in UpperSet)
isdigit_ch(c) == c \in DigitSet
\* \s of re and the whitespace of str.strip / str.split
isspace_ch(c) == c \in {" ", "\t"}

lower_ch(c) ==
    With(c, LAMBDA x :
        IF x \in UpperSet
        THEN Ch(LowerLetters, CHOOSE i \in 1..26 : Ch(UpperLetters, i) = x)
        ELSE x)
upper_ch(c) ==
    With(c, LAMBDA x :
        IF x \in LowerSet
        THEN Ch(UpperLetters, CHOOSE i \in 1..26 : Ch(LowerLetters, i) = x)
        ELSE x)

RECURSIVE concat_range(_, _, _)
concat_range(pieces, a, b) ==
    IF a > b THEN ""
    ELSE IF a = b THEN pieces[a]
    ELSE With((a + b) \div 2, LAMBDA m :
             concat_range(pieces, a, m) \o concat_range(pieces, m + 1, b))
\* "".join(pieces)
concat(pieces) == With(pieces, LAMBDA ps : concat_range(ps, 1, Len(ps)))

\* s.lower()
lower(s) == With(s, LAMBDA x : concat([i \in 1..Len(x) |-> lower_ch(Ch(x, i))]))

MinOf(S) == With(S, LAMBDA T : CHOOSE x \in T : \A y \in T : x <= y)
MaxOf(S) == With(S, LAMBDA T : CHOOSE x \in T : \A y \in T : x >= y)

\* s.strip()
strip(s) ==
    With(s, LAMBDA x :
    With({i \in 1..Len(x) : ~isspace_ch(Ch(x, i))}, LAMBDA solid :
        IF solid = {} THEN "" ELSE SubSeq(x, MinOf(solid), MaxOf(solid))))

startswith(s, p) == With(s, LAMBDA x : Len(x) >= Len(p) /\ SubSeq(x, 1, Len(p)) = p)
endswith(s, p) ==
    With(s, LAMBDA x : Len(x) >= Len(p) /\ SubSeq(x, Len(x) - Len(p) + 1, Len(x)) = p)

\* s[a:] of Python for a list, a counted from 0
DropFirst(seq, a) == With(seq, LAMBDA q : SubSeq(q, a + 1, Len(q)))
\* s[:a] of Python for a list
TakeFirst(seq, a) ==
    With2(seq, a, LAMBDA q, n : SubSeq(q, 1, IF n < Len(q) THEN n ELSE Len(q)))

\* the members of a set of numbers, ascending
Ascending(S) ==
    With(S, LAMBDA T :
        [k \in 1..Cardinality(T) |->
            CHOOSE x \in T : Cardinality({y \in T : y < x}) = k - 1] \o <<>>)

\* [x for x in seq if x]: the strings of seq that are not empty
NotEmpty(seq) ==
    With(seq, LAMBDA q :
    With(Ascending({i \in 1..Len(q) : q[i] # ""}), LAMBDA keep :
        [k \in 1..Len(keep) |-> q[keep[k]]] \o <<>>))

\* s.split(): the whitespace-separated words of s
split(s) ==
    With(s, LAMBDA x :
    With(Ascending({i \in 1..Len(x) : ~isspace_ch(Ch(x, i))
                                      /\ (i = 1 \/ isspace_ch(Ch(x, i - 1)))}),
         LAMBDA starts :
        [k \in 1..Len(starts) |->
           SubSeq(x, starts[k],
                  MinOf({e \in starts[k]..Len(x) : e = Len(x) \/ isspace_ch(Ch(x, e + 1))}))]
        \o <<>>))

\* the first index >= from (counted from 1) where sub starts in s, else 0
find(s, sub, from) ==
    With2(s, sub, LAMBDA x, p :
    With({i \in from..(Len(x) - Len(p) + 1) : SubSeq(x, i, i + Len(p) - 1) = p},
         LAMBDA hits : IF hits = {} THEN 0 ELSE MinOf(hits)))

RECURSIVE split_sep_from(_, _, _, _)
split_sep_from(s, sep, start, left) ==
    With2(start, IF left = 0 THEN 0 ELSE find(s, sep, start), LAMBDA from, hit :
        IF hit = 0 THEN <<SubSeq(s, from, Len(s))>>
        ELSE <<SubSeq(s, from, hit - 1)>>
             \o split_sep_from(s, sep, hit + Len(sep), left - 1))
\* s.split(sep): every piece, the empty ones included
split_sep(s, sep) == With(s, LAMBDA x : split_sep_from(x, sep, 1, Len(x) + 1))
\* s.split(sep, 1)
split_sep_once(s, sep) == With(s, LAMBDA x : split_sep_from(x, sep, 1, 1))

\* sep.join(parts)
join(sep, parts) ==
    With(parts, LAMBDA ps :
        IF Len(ps) = 0 THEN ""
        ELSE concat([i \in 1..(2 * Len(ps) - 1) |->
                       IF i % 2 = 1 THEN ps[(i + 1) \div 2] ELSE sep]))

\* s.replace(old, new): every occurrence, left to right
replace(s, old, new) == join(new, split_sep(s, old))
\* s.replace(old, new, 1)
replace_once(s, old, new) == join(new, split_sep_once(s, old))

\* s.rstrip(c) for a single character c
rstrip_ch(s, c) ==
    With(s, LAMBDA x :
    With({i \in 1..Len(x) : Ch(x, i) # c}, LAMBDA keep :
        IF keep = {} THEN "" ELSE SubSeq(x, 1, MaxOf(keep))))

\* s.capitalize()
capitalize(s) ==
    With(s, LAMBDA x :
        IF x = "" THEN "" ELSE upper_ch(Ch(x, 1)) \o lower(SubSeq(x, 2, Len(x))))

\* s.istitle(): some cased character; an uppercase one only after an uncased one, a
\* lowercase one only after a cased one
istitle(s) ==
    With(s, LAMBDA x :
        /\ \E i \in 1..Len(x) : isalpha_ch(Ch(x, i))
        /\ \A i \in 1..Len(x) :
             /\ isupper_ch(Ch(x, i)) => (i = 1 \/ ~isalpha_ch(Ch(x, i - 1)))
             /\ islower_ch(Ch(x, i)) => (i > 1 /\ isalpha_ch(Ch(x, i - 1))))

\* s.isupper(): some cased character, and no lowercase one
isupper(s) ==
    With(s, LAMBDA x :
        /\ \E i \in 1..Len(x) : isupper_ch(Ch(x, i))
        /\ \A i \in 1..Len(x) : ~islower_ch(Ch(x, i)))

\* s.isalpha()
isalpha(s) == With(s, LAMBDA x : x # "" /\ \A i \in 1..Len(x) : isalpha_ch(Ch(x, i)))

RECURSIVE remove_tags_from(_, _)
\* re.sub(r'<.*?>', '', s): each "<" is matched with the nearest ">" after it
remove_tags_from(s, i) ==
    With2(i, find(s, "<", i), LAMBDA from, lt :
    With(IF lt = 0 THEN 0 ELSE find(s, ">", lt + 1), LAMBDA gt :
        IF lt = 0 \/ gt = 0 THEN SubSeq(s, from, Len(s))
        ELSE SubSeq(s, from, lt - 1) \o remove_tags_from(s, gt + 1)))
remove_tags(s) == With(s, LAMBDA x : remove_tags_from(x, 1))

(***************************************************************************)
(* The case helpers and the heading detector, main.py:37-68.               *)
(***************************************************************************)
\* small_words with "but", "as" and "if" added
small_words_and_three_more ==
    {"and", "or", "the", "of", "in", "on", "for", "to", "a", "an", "by", "at", "with",
     "from", "but", "as", "if"}
small_words == {"and", "or", "the", "of", "in", "on", "for", "to", "a", "an",
                "by", "at", "with", "from"}

title_case(s) ==
    With(split(lower(s)), LAMBDA words :
        join(" ", [i \in 1..Len(words) |->
                     IF i = 1 \/ words[i] \notin small_words
                     THEN capitalize(words[i]) ELSE words[i]]))

sentence_case(s) ==
    With(strip(s), LAMBDA x :
        IF x = "" THEN x ELSE upper_ch(Ch(x, 1)) \o SubSeq(x, 2, Len(x)))

headings == {"abstract", "introduction", "references", "discussion", "conclusion"}

MAX_HEADING_WORDS == 10

\* detect_heading with a line that ends in a period never a level-2 heading
detect_heading_no_period(text_in) ==
    With(strip(remove_tags(text_in)), LAMBDA t :
    With(lower(t), LAMBDA t_lower :
        IF t_lower \in headings THEN 1
        ELSE IF istitle(t) /\ Len(split(t)) < MAX_HEADING_WORDS /\ t_lower \notin {"keywords:"}
                /\ ~endswith(t, ".")
             THEN 2
        ELSE 0))
detect_heading(text_in) ==
    With(strip(remove_tags(text_in)), LAMBDA t :
    With(lower(t), LAMBDA t_lower :
        IF t_lower \in headings THEN 1
        ELSE IF istitle(t) /\ Len(split(t)) < MAX_HEADING_WORDS /\ t_lower \notin {"keywords:"}
             THEN 2
        ELSE 0))

(***************************************************************************)
(* The segmenter of format_apa, main.py:456-477.                           *)
(***************************************************************************)
TITLE_PAGE_LINES == 7

\* [p.strip() for p in parts]
StripSeq(parts) == With(parts, LAMBDA ps : [i \in 1..Len(ps) |-> strip(ps[i])] \o <<>>)

\* [p.strip() for p in parts if p.strip()], the comprehension main.py uses on every split
StripAndKeep(parts) == NotEmpty(StripSeq(parts))

\* main.py:457-461: the stripped lines of the content that are not empty
NonEmptyLines(lines) == StripAndKeep(lines)

\* main.py:464
TitleBlock(lines) ==
    With(lines, LAMBDA ls :
        [i \in 1..TITLE_PAGE_LINES |-> IF i <= Len(ls) THEN ls[i] ELSE ""] \o <<>>)

\* BodyAndRefs with the slice started one line late
BodyAndRefsSkipOne(lines) ==
    With(lines, LAMBDA ls :
        IF Len(ls) > TITLE_PAGE_LINES THEN DropFirst(ls, TITLE_PAGE_LINES + 1) ELSE <<>>)

\* main.py:465
BodyAndRefs(lines) ==
    With(lines, LAMBDA ls :
        IF Len(ls) > TITLE_PAGE_LINES THEN DropFirst(ls, TITLE_PAGE_LINES) ELSE <<>>)

\* StartsReferences with == in the place of startswith
StartsReferencesExact(p) == lower(p) = "references"

\* main.py:469: whether the line opens the references section
StartsReferences(p) == startswith(lower(p), "references")

\* main.py:467-471: the index (from 0) of the first line that does, or -1
RefIdx(body_and_refs) ==
    With(body_and_refs, LAMBDA ls :
    With({i \in 1..Len(ls) : StartsReferences(ls[i])}, LAMBDA hits :
        IF hits = {} THEN -1 ELSE MinOf(hits) - 1))

\* main.py:472-477
MainBody(body_and_refs) ==
    With2(body_and_refs, RefIdx(body_and_refs), LAMBDA ls, ref_idx :
        IF ref_idx # -1 THEN TakeFirst(ls, ref_idx) ELSE ls)

References(body_and_refs) ==
    With2(body_and_refs, RefIdx(body_and_refs), LAMBDA ls, ref_idx :
        IF ref_idx # -1 THEN DropFirst(ls, ref_idx) ELSE <<>>)

(***************************************************************************)
(* Pieces of the regular expressions of main.py.  Indices count from 1;    *)
(* an end index is the index of the last character matched.                *)
(***************************************************************************)
SpaceSet == {" ", "\t"}
LetterSet == LowerSet \cup UpperSet
WordSet == LetterSet \cup DigitSet \cup {"_"}
\* U+2013, the en dash of main.py:355 and main.py:397
EnDash == "~"
\* U+200B and U+200C, removed at main.py:263
ZeroWidth == "^"
\* U+202C and U+202B, removed at main.py:264
BidiMark == "|"

\* whether the literal p stands in s at index j
At(s, j, p) ==
    With(j, LAMBDA k : k >= 1 /\ k + Len(p) - 1 <= Len(s) /\ SubSeq(s, k, k + Len(p) - 1) = p)
\* the same, ignoring case (re.IGNORECASE)
AtNoCase(s, j, p) ==
    With(j, LAMBDA k :
        k >= 1 /\ k + Len(p) - 1 <= Len(s) /\ lower(SubSeq(s, k, k + Len(p) - 1)) = lower(p))

\* the first index >= j whose character is not in S (Len(s) + 1 when there is none)
RunEnd(s, j, S) ==
    With2(j, Len(s), LAMBDA from, n :
    With({k \in from..n : Ch(s, k) \notin S}, LAMBDA stop :
        IF stop = {} THEN (IF from > n THEN from ELSE n + 1) ELSE MinOf(stop)))

\* the first index >= j whose character is in S (Len(s) + 1 when there is none)
RunEndNot(s, j, S) ==
    With2(j, Len(s), LAMBDA from, n :
    With({k \in from..n : Ch(s, k) \in S}, LAMBDA stop :
        IF stop = {} THEN (IF from > n THEN from ELSE n + 1) ELSE MinOf(stop)))

Smaller(a, b) == With2(a, b, LAMBDA x, y : IF x < y THEN x ELSE y)

\* ,\s*[A-Za-z]+(?:\s+\d{1,2})?\)\. matched at index j: the index of the closing
\* period, or 0 (the month and the day of the date)
MonthDayEndAt(s, j) ==
    With(RunEnd(s, j + 1, SpaceSet), LAMBDA a :
    With(RunEnd(s, a, LetterSet), LAMBDA b :
    With(RunEnd(s, b, SpaceSet), LAMBDA c :
    With(Smaller(RunEnd(s, c, DigitSet), c + 2), LAMBDA d :
        IF At(s, j, ",") /\ b > a /\ c > b /\ d > c /\ At(s, d, ").") THEN d + 1
        ELSE IF At(s, j, ",") /\ b > a /\ At(s, b, ").") THEN b + 1
        ELSE 0))))

\* \((?:\d{4}(?:,\s*[A-Za-z]+(?:\s+\d{1,2})?)?|n\.d\.)\)\.  matched at index i:
\* the index of its closing period, or 0 (main.py:267, 362, 673)
DateEndAt(s, i) ==
    With(i, LAMBDA k :
        IF ~At(s, k, "(") THEN 0
        ELSE IF At(s, k + 1, "n.d.).") THEN k + 6
        ELSE IF RunEnd(s, k + 1, DigitSet) < k + 5 THEN 0
        ELSE IF MonthDayEndAt(s, k + 5) > 0 THEN MonthDayEndAt(s, k + 5)
        ELSE IF At(s, k + 5, ").") THEN k + 6
        ELSE 0)

\* re.search(r'\s*<date>', s): <<start, end>> of the leftmost match, or <<0, 0>>;
\* the match starts at the whitespace before the parenthesis (main.py:267, 673)
SearchSpaceDate(s) ==
    With(s, LAMBDA x :
    With({p \in 1..Len(x) : DateEndAt(x, RunEnd(x, p, SpaceSet)) > 0}, LAMBDA starts :
        IF starts = {} THEN <<0, 0>>
        ELSE With(MinOf(starts), LAMBDA m : <<m, DateEndAt(x, RunEnd(x, m, SpaceSet))>>)))

\* re.search(r'<date>\s*', s): <<start, end>> of the leftmost match, or <<0, 0>>;
\* the match takes the whitespace after the period (main.py:362)
SearchDateSpace(s) ==
    With(s, LAMBDA x :
    With({p \in 1..Len(x) : DateEndAt(x, p) > 0}, LAMBDA starts :
        IF starts = {} THEN <<0, 0>>
        ELSE With(MinOf(starts), LAMBDA m :
                 <<m, RunEnd(x, DateEndAt(x, m) + 1, SpaceSet) - 1>>)))

(***************************************************************************)
(* apa_sort_key, main.py:669-692, and sorted(ref_entries, key=apa_sort_key) *)
(***************************************************************************)
\* LeadingArticleEnd with a pattern that never matches
LeadingArticleKept(s) == With(s, LAMBDA x : 0)

\* ^(?:A|An|The)\s+ with re.IGNORECASE: the index of the last character matched, or 0
LeadingArticleEnd(s) ==
    With(s, LAMBDA x :
    With(IF AtNoCase(x, 1, "a") /\ RunEnd(x, 2, SpaceSet) > 2 THEN 1
         ELSE IF AtNoCase(x, 1, "an") /\ RunEnd(x, 3, SpaceSet) > 3 THEN 2
         ELSE IF AtNoCase(x, 1, "the") /\ RunEnd(x, 4, SpaceSet) > 4 THEN 3
         ELSE 0, LAMBDA word :
        IF word = 0 THEN 0 ELSE RunEnd(x, word + 1, SpaceSet) - 1))

\* ,?\s*(?:[A-Z]\.|\(etal\)) matched at index k (main.py:684)
InitialFollows(s, k) ==
    With(RunEnd(s, IF At(s, k, ",") THEN k + 1 ELSE k, SpaceSet), LAMBDA v :
        \/ (v + 1 <= Len(s) /\ Ch(s, v) \in UpperSet /\ Ch(s, v + 1) = ".")
        \/ At(s, v, "(etal)"))

\* ^([^,(]+),?\s*(?:[A-Z]\.|\(etal\)): the length of group 1, greedy, or 0 (main.py:684)
AuthorMatchLen(s) ==
    With(s, LAMBDA x :
    With({a \in 1..(RunEndNot(x, 1, {",", "("}) - 1) : InitialFollows(x, a + 1)}, LAMBDA ok :
        IF ok = {} THEN 0 ELSE MaxOf(ok)))

\* main.py:677-679: the entry without a leading article, unless a comma stands before
\* the first period
SortablePart(part0) ==
    With(part0, LAMBDA p :
    With(LeadingArticleEnd(p), LAMBDA art :
        IF art > 0 /\ find(split_sep(p, ".")[1], ",", 1) = 0
        THEN SubSeq(p, art + 1, Len(p))
        ELSE p))

apa_sort_key(entry_in) ==
    With(strip(entry_in), LAMBDA entry_str :
    With(SearchSpaceDate(entry_str), LAMBDA year_match :
    With(SortablePart(IF year_match[1] > 0
                      THEN strip(SubSeq(entry_str, 1, year_match[1] - 1))
                      ELSE entry_str), LAMBDA sortable_part :
    With2(AuthorMatchLen(sortable_part), RunEnd(sortable_part, 1, WordSet \cup {"-"}) - 1,
          LAMBDA author_len, word_len :
        IF author_len > 0 THEN lower(SubSeq(sortable_part, 1, author_len))
        ELSE IF word_len > 0 THEN lower(SubSeq(sortable_part, 1, word_len))
        ELSE lower(sortable_part)))))

\* the characters of the model in code point order; the stand-ins of the characters
\* beyond ASCII come last
CodePointOrder ==
    "\t !#$%&'()*+,-./0123456789:;<=>?@ABCDEFGHIJKLMNOPQRSTUVWXYZ[]_abcdefghijklmnopqrstuvwxyz{}^|~"

ord(c) == With(c, LAMBDA x : CHOOSE i \in 1..Len(CodePointOrder) : Ch(CodePointOrder, i) = x)

\* a < b of Python str
str_less(a, b) ==
    With2(a, b, LAMBDA x, y :
    With({i \in 1..Smaller(Len(x), Len(y)) : Ch(x, i) # Ch(y, i)}, LAMBDA differ :
        IF differ = {} THEN Len(x) < Len(y)
        ELSE ord(Ch(x, MinOf(differ))) < ord(Ch(y, MinOf(differ)))))

\* sorted(entries, key=apa_sort_key), a stable sort (main.py:694): an entry stands
\* after the entries of a smaller key and after the earlier entries of its own key
sorted_by_key(entries) ==
    With(entries, LAMBDA es :
    With([i \in 1..Len(es) |-> apa_sort_key(es[i])] \o <<>>, LAMBDA keys :
        [k \in 1..Len(es) |->
            es[CHOOSE i \in 1..Len(es) :
                  Cardinality({j \in 1..Len(es) :
                                 \/ str_less(keys[j], keys[i])
                                 \/ (keys[j] = keys[i] /\ j < i)}) = k - 1]] \o <<>>))

(***************************************************************************)
(* format_individual_author_name, main.py:168-255.                         *)
(***************************************************************************)
common_org_indicators ==
    {"university", "college", "association", "society", "department",
     "center", "institute", "foundation", "corporation", "inc",
     "ltd", "llc", "government", "council", "bureau", "office", "press"}

\* main.py:176-191
is_likely_group(name_str) ==
    With2(name_str, split(name_str), LAMBDA name, words_in_original :
    With(Len(words_in_original), LAMBDA n :
        /\ find(name, ",", 1) = 0
        /\ n > 1
        /\ \/ With(lower(name), LAMBDA name_lower :
                  \E ind \in common_org_indicators : find(name_lower, ind, 1) > 0)
           \/ (n > 2 /\ Cardinality({i \in 1..n : istitle(words_in_original[i])
                                                  \/ isupper(words_in_original[i])}) >= n - 1)
           \/ (n > 3 /\ istitle(name))))

RECURSIVE InitialsEnd(_, _)
\* (?:[A-Z]\.(?:-[A-Z]\.)?\s*)+$ from index j: TRUE when it reaches the end of s
InitialsEnd(s, j) ==
    IF ~(j + 1 <= Len(s) /\ Ch(s, j) \in UpperSet /\ Ch(s, j + 1) = ".") THEN FALSE
    ELSE With(RunEnd(s, IF j + 4 <= Len(s) /\ Ch(s, j + 2) = "-" /\ Ch(s, j + 3) \in UpperSet
                           /\ Ch(s, j + 4) = "."
                        THEN j + 5 ELSE j + 2, SpaceSet), LAMBDA m :
             IF m > Len(s) THEN TRUE ELSE InitialsEnd(s, m))

\* ^([^,]+),\s+((?:[A-Z]\.(?:-[A-Z]\.)?\s*)+)$ : <<end of group 1, start of group 2>>,
\* or <<0, 0>> (main.py:198)
match_already_formatted(s) ==
    With2(s, find(s, ",", 1), LAMBDA x, comma :
    With(RunEnd(x, comma + 1, SpaceSet), LAMBDA g2 :
        IF comma > 1 /\ g2 > comma + 1 /\ InitialsEnd(x, g2)
        THEN <<comma - 1, g2>> ELSE <<0, 0>>))

\* re.sub(r'\s+', ' ', s)
collapse_spaces(s) ==
    With(s, LAMBDA x :
        concat([i \in 1..Len(x) |->
                  IF ~isspace_ch(Ch(x, i)) THEN Ch(x, i)
                  ELSE IF i = 1 \/ ~isspace_ch(Ch(x, i - 1)) THEN " " ELSE ""]))

\* main.py:236-241: one initial per part of a hyphenated given name
HyphenInitial(hp_part) ==
    With(rstrip_ch(strip(hp_part), "."), LAMBDA hp_part_cleaned :
        IF hp_part_cleaned # "" /\ isalpha_ch(Ch(hp_part_cleaned, 1))
        THEN upper_ch(Ch(hp_part_cleaned, 1)) \o "." ELSE "")

HyphenInitials(hyphen_parts) ==
    With(hyphen_parts, LAMBDA ps : NotEmpty([i \in 1..Len(ps) |-> HyphenInitial(ps[i])] \o <<>>))

\* main.py:231-248: what one word of the given names adds to initials_list
WordInitials(word) ==
    With(rstrip_ch(strip(word), "."), LAMBDA word_cleaned :
        IF word_cleaned = "" THEN <<>>
        ELSE IF find(word_cleaned, "-", 1) > 0
             THEN With(HyphenInitials(split_sep(word_cleaned, "-")), LAMBDA hyphen :
                      IF hyphen # <<>> THEN <<join("-", hyphen)>> ELSE <<>>)
        ELSE IF isupper(word_cleaned) /\ Len(word_cleaned) > 1 /\ isalpha(word_cleaned)
             THEN [i \in 1..Len(word_cleaned) |-> upper_ch(Ch(word_cleaned, i)) \o "."] \o <<>>
        ELSE IF isalpha_ch(Ch(word_cleaned, 1))
             THEN <<upper_ch(Ch(word_cleaned, 1)) \o ".">>
        ELSE <<>>)

RECURSIVE FlattenRange(_, _, _)
FlattenRange(seqs, a, b) ==
    IF a > b THEN <<>>
    ELSE IF a = b THEN seqs[a]
    ELSE With((a + b) \div 2, LAMBDA m :
             FlattenRange(seqs, a, m) \o FlattenRange(seqs, m + 1, b))
\* the sequences of seqs, one after the other
Flatten(seqs) == With(seqs, LAMBDA ss : FlattenRange(ss, 1, Len(ss)))

\* main.py:231-248: the initials of the words of the given names
Initials(words_in_fm) ==
    With(words_in_fm, LAMBDA ws : Flatten([i \in 1..Len(ws) |-> WordInitials(ws[i])] \o <<>>))

\* main.py:205-227: <<last_name, first_middle_text>>
NameParts(name_str) ==
    With(name_str, LAMBDA name :
        IF find(name, ",", 1) > 0
        THEN With(StripSeq(split_sep_once(name, ",")), LAMBDA parts :
                 <<parts[1], IF Len(parts) > 1 THEN parts[2] ELSE "">>)
        ELSE With(split(name), LAMBDA name_tokens :
                 <<name_tokens[Len(name_tokens)],
                   IF Len(name_tokens) > 1
                   THEN join(" ", SubSeq(name_tokens, 1, Len(name_tokens) - 1))
                   ELSE "">>))

format_individual_author_name(name_in) ==
    With(strip(name_in), LAMBDA name_str :
        IF name_str = "" THEN ""
        ELSE IF is_likely_group(name_str) THEN rstrip_ch(name_str, ".") \o "."
        ELSE With(match_already_formatted(name_str), LAMBDA m :
            IF m[1] > 0
            THEN strip(SubSeq(name_str, 1, m[1])) \o ", "
                 \o collapse_spaces(strip(SubSeq(name_str, m[2], Len(name_str))))
            ELSE With(NameParts(name_str), LAMBDA np :
                IF np[2] = "" THEN rstrip_ch(np[1], ".")
                ELSE With(join(" ", Initials(split(replace(np[2], ".", ". ")))),
                          LAMBDA formatted_initials :
                         IF formatted_initials = "" THEN rstrip_ch(np[1], ".")
                         ELSE rstrip_ch(np[1], ".") \o ", " \o formatted_initials))))

(***************************************************************************)
(* format_apa_reference_with_formatting_and_url, main.py:257-429, step by  *)
(* step.                                                                   *)
(***************************************************************************)
\* s without the characters of S
remove_chars(s, S) ==
    With(s, LAMBDA x : concat([i \in 1..Len(x) |-> IF Ch(x, i) \in S THEN "" ELSE Ch(x, i)]))

\* main.py:259-264
CleanInput(ref0) == strip(remove_chars(strip(ref0), {ZeroWidth, BidiMark}))

\* AuthorsPartOriginal with the whole of ref as the default of authors_part_original
AuthorsPartWhole(ref0) ==
    With2(ref0, SearchSpaceDate(ref0), LAMBDA r, year_match_for_authors_rule :
        IF year_match_for_authors_rule[1] > 0
        THEN strip(SubSeq(r, 1, year_match_for_authors_rule[1] - 1))
        ELSE r)

\* main.py:272
AuthorsPartOriginal(ref0) ==
    With2(ref0, SearchSpaceDate(ref0), LAMBDA r, year_match_for_authors_rule :
        IF year_match_for_authors_rule[1] > 0
        THEN strip(SubSeq(r, 1, year_match_for_authors_rule[1] - 1))
        ELSE "")

\* main.py:269, 273
DateAndAfterOriginal(ref0) ==
    With2(ref0, SearchSpaceDate(ref0), LAMBDA r, year_match_for_authors_rule :
        IF year_match_for_authors_rule[1] > 0
        THEN SubSeq(r, year_match_for_authors_rule[1], Len(r))
        ELSE r)

FakeEtAl == "FakeEtAlAuthorPlaceholder"

\* ,?\s+et al\.? with re.IGNORECASE matched at index i: the index after the match, or 0
EtAlEndAt(s, i) ==
    With(IF At(s, i, ",") THEN i + 1 ELSE i, LAMBDA from :
    With(RunEnd(s, from, SpaceSet), LAMBDA q :
        IF q > from /\ AtNoCase(s, q, "et al")
        THEN (IF At(s, q + 5, ".") THEN q + 6 ELSE q + 5)
        ELSE 0))

\* re.sub(r',?\s+et al\.?', '; FakeEtAlAuthorPlaceholder', s, flags=re.IGNORECASE),
\* main.py:279: a match starts where the pattern matches and the index before does not
sub_et_al(s) ==
    With(s, LAMBDA x :
    With([i \in 1..Len(x) |-> EtAlEndAt(x, i)] \o <<>>, LAMBDA ends :
    With({i \in 1..Len(x) : ends[i] > 0 /\ (i = 1 \/ ends[i - 1] = 0)}, LAMBDA starts :
        concat([i \in 1..Len(x) |->
                  IF i \in starts THEN "; " \o FakeEtAl
                  ELSE IF \E j \in starts : j < i /\ i < ends[j] THEN ""
                  ELSE Ch(x, i)]))))

\* main.py:307-320: the candidates when the semicolon split gives nothing
AuthorCandidates(temp_author_str) ==
    With(temp_author_str, LAMBDA t :
    With2(split_sep(t, ", and "), split_sep(t, " and "),
          LAMBDA parts_by_comma_and, parts_by_and :
        IF Len(parts_by_comma_and) > 1
        THEN StripAndKeep(split_sep(parts_by_comma_and[1], ","))
             \o <<strip(parts_by_comma_and[2])>>
        ELSE IF Len(parts_by_and) > 1
             THEN StripAndKeep(split_sep(parts_by_and[1], ","))
                  \o <<strip(parts_by_and[2])>>
        ELSE StripAndKeep(split_sep(t, ","))))

\* main.py:278-320: raw_author_strings_intermediate
RawAuthorStrings(authors_part_original) ==
    With(sub_et_al(authors_part_original), LAMBDA temp_author_str :
    With(StripAndKeep(split_sep(temp_author_str, ";")), LAMBDA split_by_semicolon :
        IF Len(split_by_semicolon) > 1
           \/ (Len(split_by_semicolon) = 1 /\ split_by_semicolon[1] = FakeEtAl)
        THEN split_by_semicolon
        ELSE AuthorCandidates(temp_author_str)))

\* main.py:323-324
KeepAuthors(raw) ==
    With(raw, LAMBDA rs :
    With([i \in 1..Len(rs) |-> format_individual_author_name(rs[i])] \o <<>>, LAMBDA names :
    With(Ascending({i \in 1..Len(names) : names[i] # "" /\ names[i] # FakeEtAl}), LAMBDA keep :
        [k \in 1..Len(keep) |-> names[keep[k]]] \o <<>>)))

FormattedAuthors(authors_part_original) == KeepAuthors(RawAuthorStrings(authors_part_original))

MAX_LISTED_AUTHORS == 21
FIRST_AUTHORS_KEPT == 19

\* JoinAuthors with formatted_authors[:20] in the place of formatted_authors[:19]
JoinAuthorsFirstTwenty(formatted_authors, authors_part_original) ==
    With(formatted_authors, LAMBDA fa :
    With(Len(fa), LAMBDA num_authors :
        IF num_authors = 0 THEN authors_part_original
        ELSE IF num_authors = 1 THEN fa[1]
        ELSE IF num_authors >= MAX_LISTED_AUTHORS
             THEN rstrip_ch(join(", ", SubSeq(fa, 1, FIRST_AUTHORS_KEPT + 1)), ",")
                  \o ", ..., " \o fa[num_authors]
        ELSE IF num_authors = 2
             THEN fa[1] \o ", & " \o fa[2]
        ELSE rstrip_ch(join(", ", SubSeq(fa, 1, num_authors - 1)), ",")
             \o ", & " \o fa[num_authors]))

\* main.py:326-340: authors_final_str
JoinAuthors(formatted_authors, authors_part_original) ==
    With(formatted_authors, LAMBDA fa :
    With(Len(fa), LAMBDA num_authors :
        IF num_authors = 0 THEN authors_part_original
        ELSE IF num_authors = 1 THEN fa[1]
        ELSE IF num_authors >= MAX_LISTED_AUTHORS
             THEN rstrip_ch(join(", ", SubSeq(fa, 1, FIRST_AUTHORS_KEPT)), ",")
                  \o ", ..., " \o fa[num_authors]
        ELSE IF num_authors = 2
             THEN fa[1] \o ", & " \o fa[2]
        ELSE rstrip_ch(join(", ", SubSeq(fa, 1, num_authors - 1)), ",")
             \o ", & " \o fa[num_authors]))

\* main.py:266-342: ref after the author processing
WithAuthors(ref0) ==
    With2(ref0, AuthorsPartOriginal(ref0), LAMBDA r, authors_part_original :
        IF authors_part_original = "" THEN r
        ELSE JoinAuthors(FormattedAuthors(authors_part_original), authors_part_original)
             \o DateAndAfterOriginal(r))

\* re.search(r'(https?://\S+)', ref), main.py:345: the URL, or None
FindUrl(ref0) ==
    With(ref0, LAMBDA r :
    With({i \in 1..Len(r) :
            \/ (At(r, i, "http://") /\ i + 7 <= Len(r) /\ ~isspace_ch(Ch(r, i + 7)))
            \/ (At(r, i, "https://") /\ i + 8 <= Len(r) /\ ~isspace_ch(Ch(r, i + 8)))},
         LAMBDA starts :
        IF starts = {} THEN None
        ELSE With(MinOf(starts), LAMBDA i0 : SubSeq(r, i0, RunEndNot(r, i0, SpaceSet) - 1))))

\* main.py:346-351: ref without the URL
WithoutUrl(ref0) ==
    With2(ref0, FindUrl(ref0), LAMBDA r, u :
        IF u = None THEN r ELSE strip(replace(r, u, "")))

\* (?<=[,\s(])(\d+)-(\d+)(?=[.\s)]|$) matched at index i: the index of the hyphen, or 0
PageRangeHyphenAt(s, i) ==
    With2(i, RunEnd(s, i, DigitSet), LAMBDA from, h :
    With(RunEnd(s, h + 1, DigitSet), LAMBDA e :
        IF /\ from >= 2
           /\ Ch(s, from - 1) \in ({",", "("} \cup SpaceSet)
           /\ h > from
           /\ At(s, h, "-")
           /\ e > h + 1
           /\ (e > Len(s) \/ Ch(s, e) \in ({".", ")"} \cup SpaceSet))
        THEN h ELSE 0))

\* the first index of the run of characters of S that ends at index i
RunStart(s, i, S) ==
    With({k \in 1..i : Ch(s, k) \notin S}, LAMBDA stop :
        IF stop = {} THEN 1 ELSE MaxOf(stop) + 1)

\* re.sub(r'(?<=[,\s(])(\d+)-(\d+)(?=[.\s)]|$)', r'\1–\2', ref), main.py:355
WithEnDash(s) ==
    With(s, LAMBDA x :
        concat([i \in 1..Len(x) |->
                  IF /\ Ch(x, i) = "-"
                     /\ i > 1
                     /\ PageRangeHyphenAt(x, RunStart(x, i - 1, DigitSet)) = i
                  THEN EnDash ELSE Ch(x, i)]))

\* main.py:377-383: a word of the title after the first
SentenceWord(w) ==
    With(w, LAMBDA x : IF isupper(x) THEN x ELSE IF istitle(x) THEN x ELSE lower(x))

\* main.py:373-386: the title in sentence case
SentenceCasedTitle(extracted_title_text) ==
    With(extracted_title_text, LAMBDA t :
    With(split(t), LAMBDA words :
        IF words # <<>>
        THEN join(" ", [i \in 1..Len(words) |->
                          IF i = 1 THEN capitalize(words[1]) ELSE SentenceWord(words[i])])
        ELSE t))

\* (?:\s*\((\w+)\))?,?\s*([\d–]+(?:–[\d–]+)?)?\. from index k: whether it matches
\* (the end of journal_pattern, main.py:396-397)
JournalTailMatches(s, k) ==
    With2(k, RunEnd(s, k, SpaceSet), LAMBDA from, sp :
    With(RunEnd(s, sp + 1, WordSet), LAMBDA w :
    With({from} \cup (IF At(s, sp, "(") /\ w > sp + 1 /\ At(s, w, ")") THEN {w + 1} ELSE {}),
         LAMBDA K1 :
    With(K1 \cup {k1 + 1 : k1 \in {x \in K1 : At(s, x, ",")}}, LAMBDA K2 :
    With(UNION {k2..RunEnd(s, k2, SpaceSet) : k2 \in K2}, LAMBDA K3 :
    With(UNION {k3..RunEnd(s, k3, DigitSet \cup {EnDash}) : k3 \in K3}, LAMBDA K4 :
        \E k4 \in K4 : At(s, k4, ".")))))))

\* ,?\s*(\d+) after the journal title ending at index a, then the tail: <<start, end>>
\* of the volume, the longest that lets the tail match, or <<0, 0>> (main.py:395)
VolumeAfter(s, a) ==
    With(RunEnd(s, IF At(s, a + 1, ",") THEN a + 2 ELSE a + 1, SpaceSet), LAMBDA v :
    With({e \in v..(RunEnd(s, v, DigitSet) - 1) : JournalTailMatches(s, e + 1)}, LAMBDA ends :
        IF ends = {} THEN <<0, 0>> ELSE <<v, MaxOf(ends)>>))

\* journal_pattern.match(s), main.py:393-399: <<start of the title, end of the title,
\* start of the volume, end of the volume>>, the title the shortest, or <<0, 0, 0, 0>>
JournalMatch(s) ==
    With2(s, RunEnd(s, 1, SpaceSet), LAMBDA x, p0 :
    With({a \in (p0 + 1)..(RunEndNot(x, p0 + 1, {",", "("}) - 1) : VolumeAfter(x, a)[1] > 0},
         LAMBDA ok :
        IF p0 <= Len(x) /\ Ch(x, p0) \in UpperSet /\ ok # {}
        THEN With2(MinOf(ok), VolumeAfter(x, MinOf(ok)), LAMBDA a, vol :
                 <<p0, a, vol[1], vol[2]>>)
        ELSE <<0, 0, 0, 0>>))

\* \((?:(?:[Nn]o|Vol)\.\s*\d+|[2-9]|[1-9]\d+)th\s*ed\.  from index k: the indices after
\* a match (main.py:416, first alternative)
EditionEnds(s, k) ==
    IF ~At(s, k, "(") THEN {}
    ELSE
    With(IF At(s, k + 1, "No.") \/ At(s, k + 1, "no.") THEN {k + 4}
         ELSE IF At(s, k + 1, "Vol.") THEN {k + 5} ELSE {}, LAMBDA n0 :
    With(UNION {{e \in (RunEnd(s, p, SpaceSet) + 1)..RunEnd(s, RunEnd(s, p, SpaceSet), DigitSet) : TRUE}
                : p \in n0}, LAMBDA N1 :
    With(IF k + 1 <= Len(s) /\ Ch(s, k + 1) \in CharsOf("23456789") THEN {k + 2} ELSE {},
         LAMBDA N2 :
    With(IF k + 1 <= Len(s) /\ Ch(s, k + 1) \in CharsOf("123456789")
         THEN (k + 3)..RunEnd(s, k + 2, DigitSet) ELSE {}, LAMBDA N3 :
    With({p + 2 : p \in {x \in N1 \cup N2 \cup N3 : At(s, x, "th")}}, LAMBDA T :
    With(UNION {t..RunEnd(s, t, SpaceSet) : t \in T}, LAMBDA E :
        {e + 3 : e \in {x \in E : At(s, x, "ed.")}}))))))

\* (?:[Rr]evised|[Ss]pecial)\s*ed\.  from index k (main.py:416, second alternative)
RevisedEnds(s, k) ==
    With(IF \/ (AtNoCase(s, k, "r") /\ At(s, k + 1, "evised"))
            \/ (AtNoCase(s, k, "s") /\ At(s, k + 1, "pecial"))
         THEN {k + 7} ELSE {}, LAMBDA W :
    With(UNION {t..RunEnd(s, t, SpaceSet) : t \in W}, LAMBDA E :
        {e + 3 : e \in {x \in E : At(s, x, "ed.")}}))

\* (?:[Tt]ech(?:nical)?\s*[Rr]ep(?:ort)?(?:\s*[Nn]o.)?)\s*[^)]+\)  from index k
\* (main.py:416, third alternative)
TechReportEnds(s, k) ==
    With(IF AtNoCase(s, k, "t") /\ At(s, k + 1, "ech") THEN {k + 4} ELSE {}, LAMBDA P1 :
    With(P1 \cup {p + 5 : p \in {x \in P1 : At(s, x, "nical")}}, LAMBDA P2 :
    With(UNION {p..RunEnd(s, p, SpaceSet) : p \in P2}, LAMBDA P3 :
    With({p + 3 : p \in {x \in P3 : AtNoCase(s, x, "r") /\ At(s, x + 1, "ep")}}, LAMBDA P4 :
    With(P4 \cup {p + 3 : p \in {x \in P4 : At(s, x, "ort")}}, LAMBDA P5 :
    With(UNION {p..RunEnd(s, p, SpaceSet) : p \in P5}, LAMBDA P5s :
    With(P5 \cup {p + 3 : p \in {x \in P5s : AtNoCase(s, x, "n") /\ At(s, x + 1, "o")
                                             /\ x + 2 <= Len(s)}}, LAMBDA P6 :
    With(UNION {p..RunEnd(s, p, SpaceSet) : p \in P6}, LAMBDA P7 :
        UNION {{e + 1 : e \in {x \in (p + 1)..(RunEndNot(s, p, {")"})) : At(s, x, ")")}}
               : p \in P7}))))))))

\* title_proper_match, main.py:416: the length of group 1, the shortest, or 0
TitleProperLen(s) ==
    With(s, LAMBDA x :
    With({n \in 1..Len(x) :
            \E k \in (n + 1)..RunEnd(x, n + 1, SpaceSet) :
                Len(x) + 1 \in (EditionEnds(x, k) \cup RevisedEnds(x, k)
                                \cup TechReportEnds(x, k))}, LAMBDA ok :
        IF ok = {} THEN 0 ELSE MinOf(ok)))

\* re.sub(r'\s+<c>', '<c>', s): a run of whitespace before the character c is dropped
drop_space_before(s, c) ==
    With(s, LAMBDA x :
        concat([i \in 1..Len(x) |->
                  IF isspace_ch(Ch(x, i)) /\ At(x, RunEnd(x, i, SpaceSet), c) THEN "" ELSE Ch(x, i)]))

\* main.py:425-428
CleanUp(ref0) ==
    strip(collapse_spaces(drop_space_before(drop_space_before(ref0, ","), ".")))

\* s.replace(old, new, 1), also for an empty old
replace_first(s, old, new) ==
    With(old, LAMBDA o : IF o = "" THEN new \o s ELSE replace_once(s, o, new))

\* s.index(sub, from0) with from0 counted from 0: the index counted from 0, or -1 for
\* the ValueError of main.py:413
index0(s, sub, from0) ==
    With(sub, LAMBDA p :
        IF p = "" THEN (IF from0 <= Len(s) THEN from0 ELSE -1)
        ELSE find(s, p, from0 + 1) - 1)

\* main.py:402-414: the italic spans of a journal article
JournalItalics(ref2, remaining_text_after_title, jm, title_end_in_ref) ==
    With2(strip(SubSeq(remaining_text_after_title, jm[1], jm[2])),
          SubSeq(remaining_text_after_title, jm[3], jm[4]),
          LAMBDA journal_title_str, journal_volume_str :
    With(index0(ref2, journal_title_str, title_end_in_ref), LAMBDA j_title_start :
        IF j_title_start = -1 THEN <<>>
        ELSE With(j_title_start + Len(journal_title_str), LAMBDA j_title_end :
             With(index0(ref2, journal_volume_str, j_title_end), LAMBDA j_vol_start :
                 IF j_vol_start = -1 THEN <<(<<j_title_start, j_title_end>>)>>
                 ELSE <<(<<j_title_start, j_title_end>>),
                        (<<j_vol_start, j_vol_start + Len(journal_volume_str)>>)>>))))

\* main.py:415-423: the italic span of a book or a report
BookItalics(sentence_cased_title, title_start_in_ref) ==
    With2(sentence_cased_title, TitleProperLen(sentence_cased_title), LAMBDA t, proper :
    With(title_start_in_ref
         + Len(IF proper > 0 THEN strip(SubSeq(t, 1, proper)) ELSE t), LAMBDA italic_title_end :
        IF title_start_in_ref < italic_title_end
        THEN <<(<<title_start_in_ref, italic_title_end>>)>> ELSE <<>>))

\* main.py:369-423, for text_after_year whose first period stands at index dot > 1
TitleSegment(r, content_start_after_year, text_after_year, dot) ==
    With2(strip(SubSeq(text_after_year, 1, dot - 1)),
          strip(SubSeq(text_after_year, dot + 1, Len(text_after_year))),
          LAMBDA extracted_title_text, remaining_text_after_title :
    With(SentenceCasedTitle(extracted_title_text), LAMBDA sentence_cased_title :
    With2(replace_first(r, extracted_title_text, sentence_cased_title),
          JournalMatch(remaining_text_after_title), LAMBDA ref2, jm :
        <<ref2,
          IF jm[1] > 0
          THEN JournalItalics(ref2, remaining_text_after_title, jm,
                              content_start_after_year + Len(sentence_cased_title))
          ELSE BookItalics(sentence_cased_title, content_start_after_year)>>)))

\* main.py:362-423: <<ref with the title in sentence case, the italic spans>>; a span
\* is <<start, end>>, counted from 0, the end excluded, as Python slices
TitleAndSource(ref0) ==
    With2(ref0, SearchDateSpace(ref0), LAMBDA r, year_match :
        IF year_match[1] = 0 THEN <<r, <<>>>>
        ELSE With(SubSeq(r, year_match[2] + 1, Len(r)), LAMBDA text_after_year :
             With(find(text_after_year, ".", 1), LAMBDA dot :
                 IF dot < 2 THEN <<r, <<>>>>
                 ELSE TitleSegment(r, year_match[2], text_after_year, dot))))

\* format_apa_reference_with_formatting_and_url(ref), main.py:257-429: the formatted
\* text, the italic spans and the URL
FormatReference(ref0) ==
    With(WithAuthors(CleanInput(ref0)), LAMBDA with_authors :
    With(TitleAndSource(WithEnDash(WithoutUrl(with_authors))), LAMBDA cased :
        [text |-> CleanUp(cased[1]), italics |-> cased[2], url |-> FindUrl(with_authors)]))

(***************************************************************************)
(* The renderers of format_apa.  A rendered unit is a record: its kind     *)
(* (which fixes the style the code gives it), its text, the input line it  *)
(* was made from (src, "" when it has none) and, for a docx paragraph, its *)
(* runs.                                                                   *)
(***************************************************************************)
Run(t, italic) == [text |-> t, italic |-> italic]

\* doc.add_paragraph(t): a paragraph with one run, or none for an empty text
Para(kind, t, src) ==
    With(t, LAMBDA x :
        [kind |-> kind, text |-> x, src |-> src,
         runs |-> IF x = "" THEN <<>> ELSE <<Run(x, FALSE)>>])

\* one entry of the list formatted of the markup output
Div(kind, t, src) == [kind |-> kind, text |-> t, src |-> src, runs |-> <<>>]

PageBreak == Para("page_break", "", "")

\* s[a:b] of Python for a string, a and b counted from 0 and not negative
Slice(s, a, b) ==
    With(Smaller(b, Len(s)), LAMBDA e : IF a >= e THEN "" ELSE SubSeq(s, a + 1, e))

ABSTRACT_MAX_WORDS == 250

\* main.py:554-560
AbstractText(line) ==
    With(strip(line), LAMBDA abstract_text :
    With(split(abstract_text), LAMBDA words :
        IF Len(words) > ABSTRACT_MAX_WORDS
        THEN join(" ", SubSeq(words, 1, ABSTRACT_MAX_WORDS)) \o "..."
        ELSE abstract_text))

\* main.py:500-518: three empty paragraphs and the seven title page fields
DocxTitlePage(tb) ==
    [i \in 1..3 |-> Para("blank", "", "")]
    \o [i \in 1..TITLE_PAGE_LINES |->
          Para("title_field", IF i = 1 THEN title_case(tb[i]) ELSE sentence_case(tb[i]), tb[i])]

\* main.py:542
AbstractDetected(body) == body # <<>> /\ lower(strip(body[1])) = "abstract"

\* main.py:567
HasKeywordsLine(body) == Len(body) > 2 /\ startswith(lower(body[3]), "keywords:")

\* main.py:543-572: the abstract page
DocxAbstractPage(body) ==
    IF ~AbstractDetected(body) THEN <<>>
    ELSE <<Para("abstract_heading", "Abstract", "")>>
         \o (IF Len(body) > 1 THEN <<Para("abstract", AbstractText(body[2]), body[2])>> ELSE <<>>)
         \o (IF HasKeywordsLine(body) THEN <<Para("keywords", body[3], body[3])>> ELSE <<>>)

\* main.py:553-566: the lines of main_body the abstract page shows
AbstractLines(body) ==
    IF ~AbstractDetected(body) THEN <<>>
    ELSE (IF Len(body) > 1 THEN <<body[2]>> ELSE <<>>)
         \o (IF HasKeywordsLine(body) THEN <<body[3]>> ELSE <<>>)

\* BodyAfterAbstract with main_body[3:] whether or not a keywords line follows
BodyAfterAbstractDropsThree(body) ==
    IF ~AbstractDetected(body) THEN body ELSE DropFirst(body, 3)

\* main.py:573: main_body after the abstract page
BodyAfterAbstract(body) ==
    IF ~AbstractDetected(body) THEN body
    ELSE IF HasKeywordsLine(body) THEN DropFirst(body, 3)
    ELSE DropFirst(body, 2)

\* DocxBodyLine without the branch that skips a keywords line
DocxBodyLineKeepsKeywords(p) ==
    With(p, LAMBDA line :
        IF strip(line) = "" THEN <<>>
        ELSE IF lower(strip(line)) = "introduction" THEN <<>>
        ELSE With(detect_heading(line), LAMBDA heading_level :
            IF heading_level = 1 THEN <<Para("heading1", title_case(line), line)>>
            ELSE IF heading_level = 2 THEN <<Para("heading2", title_case(line), line)>>
            ELSE IF heading_level = 3 THEN <<Para("heading3", title_case(line), line)>>
            ELSE <<Para("paragraph", sentence_case(line), line)>>))

\* main.py:591-652: what the docx body loop adds for the line p
DocxBodyLine(p) ==
    With(p, LAMBDA line :
        IF strip(line) = "" THEN <<>>
        ELSE IF lower(strip(line)) = "introduction" THEN <<>>
        ELSE With(detect_heading(line), LAMBDA heading_level :
            IF heading_level = 1 THEN <<Para("heading1", title_case(line), line)>>
            ELSE IF heading_level = 2 THEN <<Para("heading2", title_case(line), line)>>
            ELSE IF heading_level = 3 THEN <<Para("heading3", title_case(line), line)>>
            ELSE IF startswith(lower(line), "keywords:") THEN <<>>
            ELSE <<Para("paragraph", sentence_case(line), line)>>))

DocxBodyLines(body) == Flatten([i \in 1..Len(body) |-> DocxBodyLine(body[i])] \o <<>>)

\* main.py:577-652: the body pages
DocxBody(body, tb, abstract_handled) ==
    IF body = <<>> THEN <<>>
    ELSE (IF abstract_handled THEN <<PageBreak>> ELSE <<>>)
         \o <<Para("body_title", title_case(tb[1]), tb[1])>>
         \o DocxBodyLines(body)

\* ^\s*references?:?\s*$ with re.IGNORECASE on r.strip(), main.py:666
IsReferencesHeading(r) ==
    lower(strip(r)) \in {"reference", "references", "reference:", "references:"}

\* RefEntries that drops the first line of references and keeps the others
RefEntriesSkipFirst(refs) == With(refs, LAMBDA rs : SubSeq(rs, 2, Len(rs)))

\* main.py:666: ref_entries
RefEntries(refs) ==
    With(refs, LAMBDA rs :
    With(Ascending({i \in 1..Len(rs) : ~IsReferencesHeading(rs[i]) /\ strip(rs[i]) # ""}),
         LAMBDA keep :
        [k \in 1..Len(keep) |-> rs[keep[k]]] \o <<>>))

\* sorted(italics, key=lambda x: x[0]), main.py:708: one or two spans at most
SortedItalics(spans) ==
    With(spans, LAMBDA sp :
        IF Len(sp) = 2 /\ sp[2][1] < sp[1][1] THEN <<sp[2], sp[1]>> ELSE sp)

RECURSIVE ItalicRuns(_, _, _)
\* main.py:711-721: the runs of the formatted text, from current_pos on
ItalicRuns(t, spans, current_pos) ==
    With2(spans, current_pos, LAMBDA sp, pos :
        IF sp = <<>>
        THEN (IF pos < Len(t) THEN <<Run(Slice(t, pos, Len(t)), FALSE)>> ELSE <<>>)
        ELSE With2(sp[1][1], sp[1][2], LAMBDA start_italic, end_italic :
                 (IF start_italic > pos
                  THEN <<Run(Slice(t, pos, start_italic), FALSE)>> ELSE <<>>)
                 \o (IF start_italic < end_italic /\ end_italic <= Len(t)
                     THEN <<Run(Slice(t, start_italic, end_italic), TRUE)>> ELSE <<>>)
                 \o ItalicRuns(t, Tail(sp), end_italic)))

\* main.py:723-727: the run that shows the URL
UrlRun(formatted_ref_text, ref_url) ==
    With2(formatted_ref_text, ref_url, LAMBDA t, u :
        IF u = None \/ u = "" THEN <<>>
        ELSE <<Run((IF t = "" \/ endswith(t, " ") \/ endswith(t, ".") THEN "" ELSE " ") \o u,
                   FALSE)>>)

\* main.py:697-729: the paragraph of one reference entry
DocxReference(ref_text_original) ==
    With(FormatReference(ref_text_original), LAMBDA r :
        [kind |-> "reference", text |-> r.text, src |-> ref_text_original,
         runs |-> ItalicRuns(r.text, SortedItalics(r.italics), 0) \o UrlRun(r.text, r.url)])

\* main.py:654-729: the references page
DocxReferences(refs) ==
    IF refs = <<>> THEN <<>>
    ELSE With(sorted_by_key(RefEntries(refs)), LAMBDA ref_entries :
             <<PageBreak, Para("references_heading", "References", "")>>
             \o [i \in 1..Len(ref_entries) |-> DocxReference(ref_entries[i])])

\* main.py:480-733: the paragraphs of the docx output
RenderDocxDocument(tb, body, refs) ==
    DocxTitlePage(tb) \o <<PageBreak>> \o DocxAbstractPage(body)
    \o DocxBody(BodyAfterAbstract(body), tb, AbstractDetected(body))
    \o DocxReferences(refs)

\* str(url) in the f-string of main.py:763
UrlText(u) == With(u, LAMBDA x : IF x = None THEN "None" ELSE x)

\* main.py:745-755: the markup of the body line p
MarkupBodyLine(p) ==
    With(p, LAMBDA line :
        IF startswith(lower(line), "keywords:") THEN Div("keywords", sentence_case(line), line)
        ELSE With(detect_heading(line), LAMBDA heading_level :
            IF heading_level = 1 THEN Div("heading1", title_case(line), line)
            ELSE IF heading_level = 2 THEN Div("heading2", title_case(line), line)
            ELSE Div("paragraph", sentence_case(line), line)))

\* main.py:758-763: the markup of the i-th line of references (i counted from 1)
MarkupReference(p, i) ==
    IF i = 1 THEN Div("references_heading", title_case(p), p)
    ELSE With(FormatReference(p), LAMBDA r :
             Div("reference", r.text \o " " \o UrlText(r.url), p))

\* main.py:736-764: the list formatted of the markup output
RenderMarkup(tb, body, refs) ==
    [i \in 1..TITLE_PAGE_LINES |->
        Div("title_field", IF i = 1 THEN title_case(tb[i]) ELSE sentence_case(tb[i]), tb[i])]
    \o <<Div("br", "", "")>>
    \o [i \in 1..Len(body) |-> MarkupBodyLine(body[i])]
    \o [i \in 1..Len(refs) |-> MarkupReference(refs[i], i)]

(***************************************************************************)
(* The request handler format_apa, main.py:431-764, for a request that     *)
(* carries its document in the text field, or in an uploaded file without  *)
(* tables and images.  No API key is configured, so that the clean-up call *)
(* of main.py:454 returns the content as it is.                            *)
(***************************************************************************)
\* the longest run of lines after the title lines in the documents explored
MaxTail == 3

TitleLines == <<"apa style guide", "Ann Lee", "Dept of Sleep", "Uni of X",
                "PSY 101", "Dr Wu", "May 2020">>

LinePool ==
    {" References ", "References cited", "Abstract", "Keywords: sleep", "Keywords: Sleep",
     "Introduction", "Sleep matters.", "Zed, A. (2020). Naps.",
     "Abe, B. (2019). Rest. https://a.org/b"}

Tails == UNION {[1..n -> LinePool] : n \in 0..MaxTail}

\* a missing text, an empty one, a blank one, a document with blank lines between its
\* lines, documents shorter than the title page, and documents of the seven title
\* lines and a tail
Texts ==
    {NoText, <<"">>, <<" ">>,
     SubSeq(TitleLines, 1, 3) \o <<" ", "">> \o SubSeq(TitleLines, 4, TITLE_PAGE_LINES)
        \o <<"Abstract", " ", "Sleep matters.", "", " References ", " ", "Zed, A. (2020). Naps.">>}
    \cup {SubSeq(TitleLines, 1, TITLE_PAGE_LINES - 2) \o <<l>> : l \in LinePool}
    \cup {TitleLines \o tail : tail \in Tails}

\* no upload, uploads without a paragraph or with empty paragraphs only, and an
\* upload of the title lines and a references section
Files ==
    {NoFile, File(<<>>), File(<<"">>), File(<<" ", "">>),
     File(TitleLines \o <<"Sleep matters.", "References", "Zed, A. (2020). Naps.">>)}

\* no call of the reference parser is followed step by step
ParserIdle ==
    /\ ref = ""
    /\ ref_in = ""
    /\ authors = <<>>
    /\ italics = <<>>
    /\ url = None
    /\ sort_key = ""
    /\ step = "idle"

\* no helper is called apart from the request
CaseIdle ==
    /\ case_arg = ""
    /\ case_out = ""
    /\ case_level = 0
    /\ case_pc = "idle"

\* the one answer of requests.post the idle state holds
NoReply == [raised |-> None, status |-> 0, body |-> [type |-> "null", keys |-> {}, value |-> None, items |-> <<>>]]

HfIdle ==
    /\ hf_key = FALSE
    /\ hf_text = ""
    /\ hf_reply = NoReply
    /\ hf_exc = None
    /\ hf_result = None
    /\ hf_pc = "idle"

\* no worker process inserts an image
ImgIdle ==
    /\ img_dir = <<>>
    /\ img_pc = <<>>
    /\ img_idx = <<>>
    /\ img_left = <<>>
    /\ img_pics = <<>>
    /\ img_status = <<>>

AuxIdle == CaseIdle /\ HfIdle /\ ImgIdle

Init ==
    /\ pc = "start"
    /\ text \in Texts
    /\ file \in Files
    /\ file.uploaded => text = NoText
    /\ output_format \in {"docx", "text"}
    /\ nonempty_lines = <<>>
    /\ title_block = <<>>
    /\ main_body = <<>>
    /\ references = <<>>
    /\ abstract_lines = <<>>
    /\ consumed = <<>>
    /\ rendered = <<>>
    /\ status = 0
    /\ ParserIdle
    /\ AuxIdle

\* TextGiven with a text of blank lines taken for no text
TextGivenNotBlank == NonEmptyLines(text) # <<>>
\* main.py:446: "elif text:" is false for no text and for the empty text
TextGiven == text # NoText /\ text # <<"">>

\* main.py:437: "if file:"
FileGiven == file.uploaded

\* main.py:439, 447, 458: content.split('\n'); the paragraphs joined by "\n" and split
\* again are the paragraphs, and the one empty line when there is no paragraph
ContentLines ==
    IF FileGiven THEN (IF file.paragraphs = <<>> THEN <<"">> ELSE file.paragraphs)
    ELSE text

\* main.py:450-451
RejectNoInput ==
    /\ pc = "start"
    /\ ~FileGiven
    /\ ~TextGiven
    /\ status' = 400
    /\ pc' = "done"
    /\ UNCHANGED <<text, file, output_format, nonempty_lines, title_block, main_body,
                   references, abstract_lines, consumed, rendered, ref_vars, aux_vars>>

\* main.py:446-477
Segment ==
    /\ pc = "start"
    /\ FileGiven \/ TextGiven
    /\ nonempty_lines' = NonEmptyLines(ContentLines)
    /\ title_block' = TitleBlock(nonempty_lines')
    /\ main_body' = MainBody(BodyAndRefs(nonempty_lines'))
    /\ references' = References(BodyAndRefs(nonempty_lines'))
    /\ pc' = "segmented"
    /\ UNCHANGED <<text, file, output_format, abstract_lines, consumed, rendered, status,
                   ref_vars, aux_vars>>

\* main.py:480-733
RenderDocx ==
    /\ pc = "segmented"
    /\ output_format = "docx"
    /\ rendered' = RenderDocxDocument(title_block, main_body, references)
    /\ consumed' = IF AbstractDetected(main_body) THEN <<main_body[1]>> ELSE <<>>
    /\ abstract_lines' = AbstractLines(main_body)
    /\ main_body' = BodyAfterAbstract(main_body)
    /\ status' = 200
    /\ pc' = "done"
    /\ UNCHANGED <<text, file, output_format, nonempty_lines, title_block, references,
                   ref_vars, aux_vars>>

\* main.py:735-764
RenderText ==
    /\ pc = "segmented"
    /\ output_format # "docx"
    /\ rendered' = RenderMarkup(title_block, main_body, references)
    /\ status' = 200
    /\ pc' = "done"
    /\ UNCHANGED <<text, file, output_format, nonempty_lines, title_block, main_body,
                   references, abstract_lines, consumed, ref_vars, aux_vars>>

Next == RejectNoInput \/ Segment \/ RenderDocx \/ RenderText

Spec == Init /\ [][Next]_vars

(***************************************************************************)
(* One call of apa_sort_key and of                                         *)
(* format_apa_reference_with_formatting_and_url on a citation, followed    *)
(* statement by statement.                                                 *)
(***************************************************************************)
\* the longest author list of the citations explored
MaxAuthors == 22

\* the i-th author of a generated list: "Ao, A.", "Bo, B.", ...
Author(i) == Ch(UpperLetters, i) \o "o, " \o Ch(UpperLetters, i) \o "."

\* n authors separated by semicolons
AuthorList(n) == join("; ", [i \in 1..n |-> Author(i)])

\* a journal article by n authors
Citation(n) == AuthorList(n) \o " (2020). Naps at Work. Sleep, 4(2), 15-26."

OtherCitations ==
    {"The Great Gatsby (2020).",
     "Smith, J. (2020).",
     "Smith, J. (2020). Deep sleep.",
     "Jane B. Doe (2019). Rest.",
     "An Owl, B. (n.d.). Night.",
     "Ann Lee and Bob Roe and Cy Poe (2021). Naps.",
     "Lee, A., and Roe, B. (2021). Naps.",
     "Uni of Sleep; Roe, B. (2020, May 4). NAPS today (2nd ed.). Bed Press.",
     ", et al. (2020). Naps.",
     "Sleep notes",
     "  lee^ notes , pp. 12-14 .  see https://x.org/a. end  ",
     "Naps|, in bed 3-4",
     "see http://a b (2020)http://a. Title. More",
     "untitled note http://b.org/c",
     "Abe, B. (2019). Rest. https://a.org/b.",
     "Plato (2020).   Deep sleep.",
     "Plato (2020). Deep sleep.  Sleep Med, 4(2), 15-26.",
     "Plato (2020). Naps. Sleep 12, 12(3), 4.",
     "Smith, J. (2020). The effects of sleep. Journal of Sleep Studies, 12(3), 45-60. https://doi.org/10.1/xyz"}

Citations == {Citation(n) : n \in 1..MaxAuthors} \cup OtherCitations

\* no request is followed
RequestIdle ==
    /\ pc = "idle"
    /\ text = NoText
    /\ file = NoFile
    /\ output_format = "docx"
    /\ nonempty_lines = <<>>
    /\ title_block = <<>>
    /\ main_body = <<>>
    /\ references = <<>>
    /\ abstract_lines = <<>>
    /\ consumed = <<>>
    /\ rendered = <<>>
    /\ status = 0

InitRef ==
    /\ RequestIdle
    /\ AuxIdle
    /\ ref_in \in Citations
    /\ ref = ref_in
    /\ authors = <<>>
    /\ italics = <<>>
    /\ url = None
    /\ sort_key = ""
    /\ step = "start"

\* main.py:694: sorted calls apa_sort_key on the entry before the entry is formatted
ComputeSortKey ==
    /\ step = "start"
    /\ sort_key' = apa_sort_key(ref_in)
    /\ step' = "keyed"
    /\ UNCHANGED <<aux_vars, req_vars, ref, ref_in, authors, italics, url>>

\* main.py:259-264
CleanReference ==
    /\ step = "keyed"
    /\ ref' = CleanInput(ref)
    /\ step' = "cleaned"
    /\ UNCHANGED <<aux_vars, req_vars, ref_in, authors, italics, url, sort_key>>

\* main.py:267-324
SplitAuthors ==
    /\ step = "cleaned"
    /\ authors' = IF AuthorsPartOriginal(ref) = "" THEN <<>>
                  ELSE FormattedAuthors(AuthorsPartOriginal(ref))
    /\ step' = "split"
    /\ UNCHANGED <<aux_vars, req_vars, ref, ref_in, italics, url, sort_key>>

\* main.py:326-342
JoinAuthorList ==
    /\ step = "split"
    /\ ref' = IF AuthorsPartOriginal(ref) = "" THEN ref
              ELSE JoinAuthors(authors, AuthorsPartOriginal(ref)) \o DateAndAfterOriginal(ref)
    /\ step' = "joined"
    /\ UNCHANGED <<aux_vars, req_vars, ref_in, authors, italics, url, sort_key>>

\* main.py:345-351
ExtractUrl ==
    /\ step = "joined"
    /\ url' = FindUrl(ref)
    /\ ref' = WithoutUrl(ref)
    /\ step' = "url_out"
    /\ UNCHANGED <<aux_vars, req_vars, ref_in, authors, italics, sort_key>>

\* main.py:355
DashPageRanges ==
    /\ step = "url_out"
    /\ ref' = WithEnDash(ref)
    /\ step' = "dashed"
    /\ UNCHANGED <<aux_vars, req_vars, ref_in, authors, italics, url, sort_key>>

\* main.py:362-423
CaseTitleAndMarkItalics ==
    /\ step = "dashed"
    /\ ref' = TitleAndSource(ref)[1]
    /\ italics' = TitleAndSource(ref)[2]
    /\ step' = "cased"
    /\ UNCHANGED <<aux_vars, req_vars, ref_in, authors, url, sort_key>>

\* main.py:425-429
CleanUpAndReturn ==
    /\ step = "cased"
    /\ ref' = CleanUp(ref)
    /\ step' = "done"
    /\ UNCHANGED <<aux_vars, req_vars, ref_in, authors, italics, url, sort_key>>

NextRef ==
    \/ ComputeSortKey
    \/ CleanReference
    \/ SplitAuthors
    \/ JoinAuthorList
    \/ ExtractUrl
    \/ DashPageRanges
    \/ CaseTitleAndMarkItalics
    \/ CleanUpAndReturn

SpecRef == InitRef /\ [][NextRef]_vars

\* the statements followed one by one give what the call gives
StepsAgree ==
    step = "done" =>
        With(FormatReference(ref_in), LAMBDA r :
            ref = r.text /\ italics = r.italics /\ url = r.url)

(***************************************************************************)
(* What the documentation states of the segmenter and of the renderers,    *)
(* checked on the requests of Spec.                                        *)
(***************************************************************************)
\* the request was answered with a rendered document
Finished == pc = "done" /\ status = 200

\* the stripped lines of the document that are not empty, in input order
InputLines == NotEmpty([i \in 1..Len(ContentLines) |-> strip(ContentLines[i])] \o <<>>)

\* the input lines of the rendered units whose kind is in K, in output order
SrcsOfKinds(K) ==
    With(Ascending({i \in 1..Len(rendered) : rendered[i].kind \in K}), LAMBDA keep :
        [k \in 1..Len(keep) |-> rendered[keep[k]].src] \o <<>>)

\* how often x occurs in seq
Count(seq, x) == Cardinality({i \in 1..Len(seq) : seq[i] = x})

\* a and b hold the same lines, each as often in a as in b
SameLines(a, b) ==
    \A x \in {a[i] : i \in 1..Len(a)} \cup {b[i] : i \in 1..Len(b)} : Count(a, x) = Count(b, x)

\* the lines of seq that satisfy Keep, in order
Kept(seq, Keep(_)) ==
    With(Ascending({i \in 1..Len(seq) : Keep(seq[i])}), LAMBDA keep :
        [k \in 1..Len(keep) |-> seq[keep[k]]] \o <<>>)

\* C1: once the text is segmented, the lines of the title block (without its padding),
\* the consumed abstract sentinel, the abstract lines, the body lines and the lines of
\* the references section, one after the other, are exactly the non-empty trimmed
\* lines of the input in input order: no line is lost, none is in two buckets.
C1_Partition ==
    (pc \in {"segmented", "done"} /\ status # 400) =>
        NotEmpty(title_block) \o consumed \o abstract_lines \o main_body \o references
            = InputLines

\* a docx request whose abstract sentinel, abstract and references section are not
\* empty, and one of whose lines was trimmed
C1_Witness ==
    /\ Finished
    /\ consumed # <<>>
    /\ abstract_lines # <<>>
    /\ references # <<>>
    /\ InputLines # ContentLines

\* the lines (by index in nonempty_lines) that equal "references", case ignored
ExactReferences ==
    {i \in 1..Len(nonempty_lines) : lower(nonempty_lines[i]) = "references"}

\* C2 as stated: the references section starts at the first line of the document that
\* equals "references" (trimmed, case ignored), at no other line, and the sentinel line
\* is in no bucket.
C2_ExactSentinelAnywhere ==
    pc = "segmented" =>
        references = IF ExactReferences = {} THEN <<>>
                     ELSE SubSeq(nonempty_lines, MinOf(ExactReferences) + 1,
                                 Len(nonempty_lines))

\* the lines after the title block that begin with "references", case ignored
PrefixReferences ==
    {i \in (TITLE_PAGE_LINES + 1)..Len(nonempty_lines) :
        startswith(lower(nonempty_lines[i]), "references")}

\* C2 amended: the references section starts at the first line after the seven lines
\* of the title block that begins with "references" (case ignored), that line is the
\* first line of the references bucket, and the lines between the title block and it
\* are the body; without such a line the references bucket is empty.
C2_PrefixSentinelAfterTitle ==
    pc = "segmented" =>
        IF PrefixReferences = {}
        THEN /\ references = <<>>
             /\ main_body = SubSeq(nonempty_lines, TITLE_PAGE_LINES + 1, Len(nonempty_lines))
        ELSE /\ references = SubSeq(nonempty_lines, MinOf(PrefixReferences),
                                    Len(nonempty_lines))
             /\ main_body = SubSeq(nonempty_lines, TITLE_PAGE_LINES + 1,
                                   MinOf(PrefixReferences) - 1)

\* the section starts at a line that only begins with "references" and has later lines
C2_Witness ==
    /\ pc = "segmented"
    /\ Len(references) > 1
    /\ lower(references[1]) # "references"
    /\ main_body # <<>>

\* ^\s*references?:?\s*$ said of a trimmed line, case ignored
BareHeading(l) == lower(strip(l)) \in {"reference", "references", "reference:", "references:"}

NotBareHeading(l) == ~BareHeading(l)

\* every unit after the heading of the references page is a reference entry
OnlyEntriesAfterHeading ==
    \A i \in 1..Len(rendered) : \A j \in (i + 1)..Len(rendered) :
        rendered[i].kind = "references_heading" => rendered[j].kind = "reference"

ExactAbstract == {i \in 1..Len(nonempty_lines) : lower(nonempty_lines[i]) = "abstract"}

\* C4 as stated: wherever a line equals "abstract", it is consumed as a sentinel and
\* every line after it and before the references section is an abstract line.
C4_AbstractAnywhere ==
    (Finished /\ ExactAbstract # {}) =>
        /\ consumed = <<nonempty_lines[MinOf(ExactAbstract)]>>
        /\ abstract_lines = SubSeq(nonempty_lines, MinOf(ExactAbstract) + 1,
                                   Len(nonempty_lines) - Len(references))

\* the lines between the title block and the references section
BodyRegion ==
    SubSeq(nonempty_lines, TITLE_PAGE_LINES + 1, Len(nonempty_lines) - Len(references))

\* how many lines of the body region the abstract page takes
AbstractPageLength ==
    IF Len(BodyRegion) > 2 /\ startswith(lower(BodyRegion[3]), "keywords:") THEN 3
    ELSE IF Len(BodyRegion) > 1 THEN 2
    ELSE 1

\* C4 amended: in the docx output a line that equals "abstract" (trimmed, case ignored)
\* is the abstract sentinel only as the first line after the title block; then it is
\* not content, the one line after it is the abstract, a third line that begins with
\* "keywords:" is the keywords line, and every further line before the references
\* section is a body line.  Elsewhere, and in the markup output, the line is a body
\* line and no line is an abstract line.
C4_AbstractFirstBodyLine ==
    Finished =>
        IF output_format = "docx" /\ BodyRegion # <<>> /\ lower(BodyRegion[1]) = "abstract"
        THEN /\ consumed = <<BodyRegion[1]>>
             /\ abstract_lines = SubSeq(BodyRegion, 2, AbstractPageLength)
             /\ main_body = SubSeq(BodyRegion, AbstractPageLength + 1, Len(BodyRegion))
             /\ SrcsOfKinds({"abstract", "keywords"}) = abstract_lines
        ELSE /\ consumed = <<>>
             /\ abstract_lines = <<>>
             /\ main_body = BodyRegion
             /\ SrcsOfKinds({"abstract_heading", "abstract"}) = <<>>

\* a docx document with the sentinel, one abstract line and a body line after them
C4_Witness ==
    /\ Finished
    /\ output_format = "docx"
    /\ consumed # <<>>
    /\ Len(abstract_lines) = 1
    /\ main_body # <<>>

\* the kinds of the units the renderers make of body lines
BodyKinds ==
    {"heading1", "heading2", "heading3", "paragraph"}
    \cup (IF output_format = "docx" THEN {} ELSE {"keywords"})

\* C5 as stated: in both output formats every line of the body bucket is rendered
\* exactly once, in the original order.
C5_EveryBodyLineRendered == Finished => SrcsOfKinds(BodyKinds) = main_body

\* whether the docx body loop renders the body line p
DocxRenders(p) ==
    /\ lower(strip(p)) # "introduction"
    /\ (startswith(lower(p), "keywords:") => detect_heading(p) > 0)

\* C5 amended: the markup output renders every line of the body bucket exactly once, in
\* the original order.  The docx output renders the body lines in the original order,
\* each once, but for the lines it skips: a line that equals "introduction" (trimmed,
\* case ignored), and a line that begins with "keywords:" (case ignored) and is not
\* detected as a heading.
C5_BodyLinesButSkipped ==
    Finished =>
        SrcsOfKinds(BodyKinds) = IF output_format = "docx" THEN Kept(main_body, DocxRenders)
                                 ELSE main_body

\* a docx document whose body has a line that is rendered, an "introduction" line or a
\* keywords line that is skipped, and another line that is rendered
C5_Witness ==
    /\ Finished
    /\ output_format = "docx"
    /\ Len(main_body) = 3
    /\ DocxRenders(main_body[1])
    /\ ~DocxRenders(main_body[2])
    /\ DocxRenders(main_body[3])
    /\ Len(SrcsOfKinds(BodyKinds)) = 2

\* C6: in the rendered output of either format the reference entries stand in
\* ascending order of their sort key.
C6_EntriesAscending ==
    Finished =>
        With(SrcsOfKinds({"reference"}), LAMBDA entries :
            \A i \in 1..(Len(entries) - 1) :
                ~str_less(apa_sort_key(entries[i + 1]), apa_sort_key(entries[i])))

(***************************************************************************)
(* What the documentation states of the sort key and of the reference      *)
(* parser, checked on the calls of SpecRef.                                *)
(***************************************************************************)
\* the text before the date anchor (the whole text when there is none), without one
\* leading "a ", "an " or "the " when no comma stands before the first period
KeyText(entry) ==
    With(strip(entry), LAMBDA s :
    With(SearchSpaceDate(s), LAMBDA year_match :
        SortablePart(IF year_match[1] > 0 THEN strip(SubSeq(s, 1, year_match[1] - 1))
                     ELSE s)))

\* C7 as stated: the sort key is the whole text before the date anchor, in lower case,
\* without a leading article when no comma occurs in the first clause; "The Great
\* Gatsby (2020)." has the key "great gatsby" and "Smith, J. (2020)." the key "smith, j".
C7_WholeTextKey ==
    step # "start" =>
        /\ sort_key = lower(KeyText(ref_in))
        /\ ref_in = "The Great Gatsby (2020)." => sort_key = "great gatsby"
        /\ ref_in = "Smith, J. (2020)." => sort_key = "smith, j"

\* an optional comma, optional whitespace, then a capital letter and a period or
\* "(etal)", from index k of t
InitialAfter(t, k) ==
    \E j \in k..Len(t) :
        /\ \A i \in k..(j - 1) : isspace_ch(Ch(t, i)) \/ (i = k /\ Ch(t, i) = ",")
        /\ \/ (j + 1 <= Len(t) /\ Ch(t, j) \in UpperSet /\ Ch(t, j + 1) = ".")
           \/ At(t, j, "(etal)")

\* the lengths of the prefixes of t without comma and parenthesis that an initial follows
SurnameEnds(t) ==
    {a \in 1..Len(t) : (\A i \in 1..a : Ch(t, i) \notin {",", "("}) /\ InitialAfter(t, a + 1)}

\* the length of the first word of t: letters, digits, "_" and "-"
FirstWordLength(t) ==
    Cardinality({n \in 1..Len(t) : \A i \in 1..n : Ch(t, i) \in WordSet \cup {"-"}})

\* C7 amended: the sort key is taken from the text before the date anchor (the whole
\* text when there is none), without one leading "a ", "an " or "the " when no comma
\* stands before the first period: it is, in lower case, the longest prefix without
\* comma and "(" that is followed by an optional comma, optional whitespace and a
\* capital initial with its period (the first author's surname); without such a prefix
\* the first word (letters, digits, "_", "-"); without a first word the whole text.
\* "The Great Gatsby (2020)." has the key "great" and "Smith, J. (2020)." the key "smith".
C7_SurnameOrFirstWordKey ==
    step # "start" =>
        /\ With(KeyText(ref_in), LAMBDA t :
               sort_key = IF SurnameEnds(t) # {} THEN lower(SubSeq(t, 1, MaxOf(SurnameEnds(t))))
                          ELSE IF FirstWordLength(t) > 0
                               THEN lower(SubSeq(t, 1, FirstWordLength(t)))
                          ELSE lower(t))
        /\ ref_in = "The Great Gatsby (2020)." => sort_key = "great"
        /\ ref_in = "Smith, J. (2020)." => sort_key = "smith"

\* the key of "The Great Gatsby (2020)." was computed
C7_Witness ==
    /\ step = "keyed"
    /\ ref_in = "The Great Gatsby (2020)."
    /\ sort_key = "great"

\* the names separated by ", "
CommaList(names) ==
    concat([i \in 1..Len(names) |-> IF i = 1 THEN names[i] ELSE ", " \o names[i]])

\* the author string of the bucketed rule for the names, original the author text
BucketedAuthorString(names, original) ==
    With(Len(names), LAMBDA n :
        IF n = 0 THEN original
        ELSE IF n = 1 THEN names[1]
        ELSE IF n = 2 THEN names[1] \o ", & " \o names[2]
        ELSE IF n <= 20 THEN CommaList(SubSeq(names, 1, n - 1)) \o ", & " \o names[n]
        ELSE CommaList(SubSeq(names, 1, 19)) \o ", ..., " \o names[n])

\* C8: the author string the parser puts before the date follows the bucketed rule for
\* every number n of formatted names: the name alone for n = 1, "A, & B" for n = 2,
\* all names separated by commas with ", & " before the last for 3 <= n <= 20, the
\* first 19 names, ", ..., " and the last name for n >= 21, and the original author
\* text for n = 0.
C8_BucketedJoin ==
    (step = "joined" /\ AuthorsPartOriginal(CleanInput(ref_in)) # "") =>
        ref = BucketedAuthorString(authors, AuthorsPartOriginal(CleanInput(ref_in)))
              \o DateAndAfterOriginal(CleanInput(ref_in))

\* a list of 21 names or more was joined
C8_Witness ==
    /\ step = "joined"
    /\ Len(authors) >= 21
    /\ find(ref, ", ..., ", 1) > 0

\* how many authors the citation lists, for the citations whose authors are listed
\* with the separators of the claim; 0 for the others
ListedAuthors(citation) ==
    IF \E n \in 1..MaxAuthors : citation = Citation(n)
    THEN CHOOSE n \in 1..MaxAuthors : citation = Citation(n)
    ELSE IF citation = "Smith, J. (2020). Deep sleep." THEN 1
    ELSE IF citation = "Lee, A., and Roe, B. (2021). Naps." THEN 2
    ELSE IF citation = "Ann Lee and Bob Roe and Cy Poe (2021). Naps." THEN 3
    ELSE 0

\* C9: for an author part that lists k authors separated by ";", ", and " or " and ",
\* the list of names passed to the join has exactly k entries.
C9_OneNamePerAuthor ==
    (step = "split" /\ ListedAuthors(ref_in) > 0) => Len(authors) = ListedAuthors(ref_in)

\* whether s holds no date anchor
NoDateAnchor(s) == SearchDateSpace(s)[1] = 0

\* s without its URL
UrlRemoved(s) == IF FindUrl(s) = None THEN s ELSE replace(s, FindUrl(s), "")

\* C10 as stated: for a citation without a date anchor the parser returns the input
\* unmodified but for the removal of the URL (whitespace at the ends apart), no italic
\* span, and the URL.
C10_FallbackUnmodified ==
    (step = "done" /\ NoDateAnchor(ref_in)) =>
        /\ ref \in {UrlRemoved(ref_in), strip(UrlRemoved(ref_in))}
        /\ italics = <<>>
        /\ url = FindUrl(ref_in)

\* C10 amended: for a citation that holds no date anchor, neither as given nor after
\* the removal of the URL, the parser returns no italic span, the URL (the first run
\* without whitespace that starts with http:// or https://) or none, and the input
\* with these changes only: the zero-width and the directional marks are removed,
\* every occurrence of the URL is removed, the hyphen of a page range becomes an en
\* dash, whitespace before a comma or a period is removed, every run of whitespace
\* becomes one space, and the whitespace at both ends is removed.
C10_FallbackNormalised ==
    With(CleanInput(ref_in), LAMBDA cleaned :
        (step = "done" /\ NoDateAnchor(cleaned) /\ NoDateAnchor(UrlRemoved(cleaned))) =>
            /\ ref = CleanUp(WithEnDash(strip(UrlRemoved(cleaned))))
            /\ italics = <<>>
            /\ url = FindUrl(cleaned)
            /\ \A bad \in {ZeroWidth, BidiMark, "  ", " ,", " ."} : find(ref, bad, 1) = 0
            /\ ref = strip(ref))

\* a citation without a date anchor, with a URL, a page range and marks, was returned
C10_Witness ==
    /\ step = "done"
    /\ NoDateAnchor(CleanInput(ref_in))
    /\ NoDateAnchor(UrlRemoved(CleanInput(ref_in)))
    /\ url # None
    /\ find(ref, EnDash, 1) > 0
    /\ find(ref_in, ZeroWidth, 1) > 0
    /\ Len(ref) < Len(ref_in)


(***************************************************************************)
(* What the documentation states of the URL and of the italic spans,       *)
(* checked on the calls of SpecRef.                                        *)
(***************************************************************************)
\* the reference as it stands when the URL is searched: cleaned, authors joined
BeforeUrl(citation) == WithAuthors(CleanInput(citation))

\* s without one trailing period
WithoutTrailingPeriod(s) ==
    IF endswith(s, ".") THEN SubSeq(s, 1, Len(s) - 1) ELSE s

\* C11: when the citation holds an http(s) URL token, the returned url is the first
\* such token without a trailing period, the text holds neither that URL nor the
\* period that trailed it, and only the first occurrence of the token is removed.
C11_FirstUrlWithoutPeriod ==
    (step = "url_out" /\ FindUrl(BeforeUrl(ref_in)) # None) =>
        With2(BeforeUrl(ref_in), FindUrl(BeforeUrl(ref_in)), LAMBDA before, token :
            /\ url = WithoutTrailingPeriod(token)
            /\ find(ref, url, 1) = 0
            /\ ref = strip(replace_once(before, token, "")))

\* C12: the italic spans returned with the formatted text are sorted ascending, do not
\* overlap, and each satisfies 0 <= start < end <= length of the returned text.
C12_SpansWithinReturnedText ==
    step = "done" =>
        /\ \A i \in 1..Len(italics) :
               0 <= italics[i][1] /\ italics[i][1] < italics[i][2] /\ italics[i][2] <= Len(ref)
        /\ \A i \in 1..Len(italics) : \A j \in (i + 1)..Len(italics) :
               italics[i][2] <= italics[j][1]

\* the journal name and the volume number of the journal articles explored
JournalAndVolume(citation) ==
    IF \E n \in 1..MaxAuthors : citation = Citation(n) THEN <<"Sleep", "4">>
    ELSE IF citation = "Plato (2020). Deep sleep.  Sleep Med, 4(2), 15-26."
         THEN <<"Sleep Med", "4">>
    ELSE IF citation = "Plato (2020). Naps. Sleep 12, 12(3), 4." THEN <<"Sleep 12", "12">>
    ELSE IF citation = "Smith, J. (2020). The effects of sleep. Journal of Sleep Studies, 12(3), 45-60. https://doi.org/10.1/xyz"
         THEN <<"Journal of Sleep Studies", "12">>
    ELSE <<>>

\* C13: for a journal article the two italic spans index the returned text: the text at
\* the first span is the journal name and the text at the second span the volume
\* number; the article of Smith (2020) is returned with the authors "Smith, J." and
\* the pages 45-60 joined by an en dash.
C13_SpansIndexReturnedText ==
    (step = "done" /\ JournalAndVolume(ref_in) # <<>>) =>
        /\ Len(italics) = 2
        /\ Slice(ref, italics[1][1], italics[1][2]) = JournalAndVolume(ref_in)[1]
        /\ Slice(ref, italics[2][1], italics[2][2]) = JournalAndVolume(ref_in)[2]
        /\ JournalAndVolume(ref_in)[1] = "Journal of Sleep Studies" =>
               /\ startswith(ref, "Smith, J. (2020).")
               /\ find(ref, "45" \o EnDash \o "60", 1) > 0
               /\ url = "https://doi.org/10.1/xyz"

(***************************************************************************)
(* One call of title_case and one of detect_heading on a line, as the      *)
(* renderers make them on a heading candidate.                             *)
(***************************************************************************)
\* the most words of a generated line
MaxWords == 2

CaseWords ==
    {"sleep", "Sleep", "SLEEP", "of", "The", "but", "naps:", "2nd", "(APA)", "Naps.",
     "McNap", "Keywords:"}

\* lines typed by hand: empty ones, the heading vocabulary, tags, keywords lines, lines
\* of nine and of ten words, a small word after a colon and runs of spaces
OtherCaseLines ==
    {"", " ", "Abstract", " introduction ", "<b>References</b>", "<i>Sleep Matters</i>",
     "Keywords: Sleep", "keywords:", "<b>Keywords:</b>", "A B C D E F G H I", "A B C D E F G H I J",
     "Sleep: a Study of (APA) but  NAPS", "  Deep  Sleep. "}

CaseLines ==
    {join(" ", w \o <<>>) : w \in UNION {[1..n -> CaseWords] : n \in 1..MaxWords}}
    \cup OtherCaseLines

InitCase ==
    /\ RequestIdle
    /\ ParserIdle
    /\ HfIdle
    /\ ImgIdle
    /\ case_arg \in CaseLines
    /\ case_out = ""
    /\ case_level = 0
    /\ case_pc = "start"

\* main.py:620, 740, 751: title_case(p)
CallTitleCase ==
    /\ case_pc = "start"
    /\ case_out' = title_case(case_arg)
    /\ case_pc' = "titled"
    /\ UNCHANGED <<req_vars, ref_vars, hf_vars, img_vars, case_arg, case_level>>

\* main.py:618, 749: level = detect_heading(p)
CallDetectHeading ==
    /\ case_pc = "titled"
    /\ case_level' = detect_heading(case_arg)
    /\ case_pc' = "detected"
    /\ UNCHANGED <<req_vars, ref_vars, hf_vars, img_vars, case_arg, case_out>>

NextCase == CallTitleCase \/ CallDetectHeading

SpecCase == InitCase /\ [][NextCase]_vars

(***************************************************************************)
(* What the documentation states of title_case and of detect_heading,      *)
(* checked on the calls of SpecCase.                                       *)
(***************************************************************************)
\* the tokens of the argument and of the result of title_case
ArgTokens == split(case_arg)
OutTokens == split(case_out)

\* t with its first character in upper case
FirstUpper(t) == IF t = "" THEN "" ELSE upper_ch(Ch(t, 1)) \o SubSeq(t, 2, Len(t))

\* the small words the documentation lists
DocumentedSmallWords ==
    {"and", "or", "the", "of", "in", "on", "for", "to", "a", "an", "by", "at", "with",
     "from", "but", "as", "if"}

\* the small words of main.py:39, word by word
FourteenSmallWords ==
    {"and", "or", "the", "of", "in", "on", "for", "to", "a", "an", "by", "at", "with",
     "from"}

\* C14 as stated: the first token and a token after a colon are capitalized; another
\* alphabetic token is lowercased when its lowercase form is one of the 17 documented
\* small words and gets its first letter capitalized otherwise; tokens that are not
\* alphabetic and the separators pass through unchanged.
C14_ColonAndDocumentedWords ==
    case_pc # "start" =>
        /\ Len(OutTokens) = Len(ArgTokens)
        /\ \A i \in 1..Len(ArgTokens) :
             With(ArgTokens[i], LAMBDA t :
               OutTokens[i] =
                 IF ~isalpha(t) THEN t
                 ELSE IF i = 1 \/ endswith(ArgTokens[i - 1], ":") THEN FirstUpper(t)
                 ELSE IF lower(t) \in DocumentedSmallWords THEN lower(t)
                 ELSE FirstUpper(t))
        /\ Len(case_out) = Len(case_arg)
        /\ \A i \in 1..Len(case_arg) : isspace_ch(Ch(case_arg, i)) <=> isspace_ch(Ch(case_out, i))

\* C14 amended: title_case puts every letter in lower case, then capitalizes the first
\* token and every other token that is not one of the 14 small words and, or, the, of,
\* in, on, for, to, a, an, by, at, with, from (so "but", "as" and "if" are capitalized,
\* and a small word after a colon stays in lower case); to capitalize a token is to put
\* its first character in upper case, which leaves a token that begins with no letter
\* in lower case; the tokens are joined by single spaces, without the whitespace at
\* the ends.
C14_FourteenWordsNoColon ==
    case_pc # "start" =>
        /\ Len(OutTokens) = Len(ArgTokens)
        /\ \A i \in 1..Len(ArgTokens) :
             With(lower(ArgTokens[i]), LAMBDA t :
               OutTokens[i] = IF i = 1 \/ t \notin FourteenSmallWords THEN FirstUpper(t) ELSE t)
        /\ case_out = strip(case_out)
        /\ find(case_out, "  ", 1) = 0

\* a small word after a colon, "but", a token in parentheses and a run of spaces went
\* through title_case
C14_Witness ==
    /\ case_pc = "titled"
    /\ case_arg = "Sleep: a Study of (APA) but  NAPS"
    /\ case_out = "Sleep: a Study of (apa) But Naps"

\* the line as detect_heading reads it: without tags, trimmed
HeadingText == strip(remove_tags(case_arg))

\* the line is a keywords line (it begins with "keywords:", or it reads "keywords:"
\* without its tags), or one of the level-1 headings
KeywordsOrVocabulary ==
    \/ startswith(lower(case_arg), "keywords:")
    \/ lower(HeadingText) = "keywords:"
    \/ lower(HeadingText) \in {"abstract", "introduction", "references", "discussion",
                               "conclusion"}

\* every alphabetic word of t begins with a capital letter
AlphabeticWordsCapitalized(t) ==
    \A i \in 1..Len(split(t)) :
        isalpha(split(t)[i]) => isupper_ch(Ch(split(t)[i], 1))

\* C15 as stated: a line that is no keywords line and no level-1 heading is a level-2
\* heading if and only if every alphabetic word of it is capitalized, it has fewer than
\* 10 words and it does not end in "."; otherwise it is a paragraph.
C15_CapitalizedShortNoPeriod ==
    (case_pc = "detected" /\ ~KeywordsOrVocabulary) =>
        /\ case_level \in {0, 2}
        /\ case_level = 2 <=>
             /\ AlphabeticWordsCapitalized(HeadingText)
             /\ Len(split(HeadingText)) < 10
             /\ ~endswith(HeadingText, ".")

\* t holds a letter, every letter of t that follows no letter is a capital, and every
\* letter that follows a letter is a small one
LetterRunsCapitalized(t) ==
    /\ \E i \in 1..Len(t) : Ch(t, i) \in LetterSet
    /\ \A i \in 1..Len(t) :
         Ch(t, i) \in LetterSet =>
            (Ch(t, i) \in UpperSet <=> (i = 1 \/ Ch(t, i - 1) \notin LetterSet))

\* C15 amended: a line that is no keywords line and no level-1 heading is a level-2
\* heading if and only if, read without tags and trimmed, it holds a letter, every run
\* of letters in it begins with a capital and goes on in small letters, and it has
\* fewer than 10 words; whether it ends in "." makes no difference.  Otherwise it is a
\* paragraph.  A line of one word qualifies under the same rule.
C15_LetterRunsCapitalizedShort ==
    (case_pc = "detected" /\ ~KeywordsOrVocabulary) =>
        /\ case_level \in {0, 2}
        /\ case_level = 2 <=>
             /\ LetterRunsCapitalized(HeadingText)
             /\ Len(split(HeadingText)) < 10

\* a capitalized line that ends in a period was detected as a level-2 heading
C15_Witness ==
    /\ case_pc = "detected"
    /\ case_arg = "  Deep  Sleep. "
    /\ case_level = 2

(***************************************************************************)
(* What the documentation states of keywords lines and of the URL of a     *)
(* rendered reference, checked on the requests of Spec.                    *)
(***************************************************************************)
\* C16: a body line whose lowercased text starts with "keywords:" is classified as
\* keywords and is never rendered as a heading, in both output formats; in the docx
\* output a stray keywords line of the body is rendered neither as a heading nor as a
\* paragraph.
C16_KeywordsNeverHeading ==
    Finished =>
        \A i \in 1..Len(rendered) :
            rendered[i].kind \in {"heading1", "heading2", "heading3", "paragraph"}
                => ~startswith(lower(rendered[i].src), "keywords:")

\* the text a reader sees in the rendered unit u: the runs of a docx paragraph one after
\* the other, the content of a markup element
VisibleText(u) ==
    IF output_format = "docx" THEN concat([k \in 1..Len(u.runs) |-> u.runs[k].text])
    ELSE u.text

\* C20: a reference entry whose citation holds a URL is rendered as the formatted text
\* followed by that URL, once; an entry whose citation holds no URL is rendered as
\* the formatted text only, nothing appended, in the markup and in the docx output.
C20_UrlOnlyWhenPresent ==
    Finished =>
        \A i \in 1..Len(rendered) :
            rendered[i].kind = "reference" =>
                With2(FormatReference(rendered[i].src), VisibleText(rendered[i]), LAMBDA r, seen :
                    IF r.url = None THEN seen = r.text
                    ELSE seen \in {r.text \o r.url, r.text \o " " \o r.url})

\* the request carries no document: neither a file nor a text of one character or more
NothingSent == ~file.uploaded /\ text \in {NoText, <<"">>}

\* C18 as stated: a request whose input yields no non-empty line (no text and no file,
\* an empty or blank text, a file without paragraph text) ends with status 400 and
\* produces no formatted output.
C18_NoLineRejected ==
    (pc = "done" /\ InputLines = <<>>) => (status = 400 /\ rendered = <<>>)

\* C18 amended: a request ends with status 400 and without formatted output if and only
\* if it carries neither a file nor a text of one character or more.  A blank text and
\* a file without paragraph text are formatted with status 200: the output is the
\* title page of seven empty fields, without body and without references.
C18_NothingSentRejected ==
    pc = "done" =>
        /\ status = IF NothingSent THEN 400 ELSE 200
        /\ status = 400 => rendered = <<>>
        /\ (status = 200 /\ InputLines = <<>>) =>
              /\ title_block = [i \in 1..TITLE_PAGE_LINES |-> ""]
              /\ main_body = <<>> /\ references = <<>>
              /\ Len(SrcsOfKinds({"title_field"})) = TITLE_PAGE_LINES
              /\ \A i \in 1..Len(rendered) : rendered[i].text = ""

\* a blank text and an upload without paragraphs were formatted
C18_Witness ==
    /\ pc = "done"
    /\ status = 200
    /\ rendered # <<>>
    /\ InputLines = <<>>
    /\ file.uploaded \/ text = <<" ">>

(***************************************************************************)
(* One call of huggingface_format_text, main.py:117-136, with the answers  *)
(* requests.post can give.  A JSON value is a record: its type, the keys   *)
(* of an object, the items of an array, and as value the string itself or  *)
(* the value of the key generated_text.                                    *)
(***************************************************************************)
Json(type, keys, value, items) ==
    [type |-> type, keys |-> keys, value |-> value, items |-> items]

\* the bodies explored: the two shapes the function reads, and others
Bodies ==
    {Json("list", {}, None, <<Json("dict", {"generated_text"}, "Clean text.", <<>>)>>),
     Json("dict", {"generated_text"}, "Clean text.", <<>>),
     Json("list", {}, None, <<>>),
     Json("list", {}, None, <<Json("dict", {"sequence", "labels", "scores"}, None, <<>>)>>),
     Json("list", {}, None, <<Json("str", {}, "oops", <<>>)>>),
     Json("list", {}, None, <<Json("str", {}, "no generated_text", <<>>)>>),
     Json("list", {}, None, <<Json("int", {}, None, <<>>)>>),
     Json("list", {}, None, <<Json("null", {}, None, <<>>)>>),
     Json("list", {}, None, <<Json("list", {}, None, <<>>)>>),
     Json("dict", {"error"}, None, <<>>),
     Json("str", {}, "Clean text.", <<>>),
     Json("int", {}, None, <<>>),
     Json("null", {}, None, <<>>),
     Json("invalid", {}, None, <<>>)}

\* main.py:126
HTTP_OK == 200

StatusCodes == {HTTP_OK, 404, 503}

\* what requests.post raises: no connection, and the timeout of 20 seconds
PostExceptions == {"ConnectionError", "Timeout"}

Replies ==
    {[raised |-> e, status |-> 0, body |-> NoReply.body] : e \in PostExceptions}
    \cup {[raised |-> None, status |-> s, body |-> b] : s \in StatusCodes, b \in Bodies}

HfTexts == {"", "Sleep matters.", " sleep  MATTERS "}

\* the exception 'generated_text' in v raises, or None
InRaises(v) == IF v.type \in {"int", "null"} THEN "TypeError" ELSE None

\* 'generated_text' in v, for the values on which it does not raise
HasGeneratedText(v) ==
    IF v.type = "dict" THEN "generated_text" \in v.keys
    ELSE IF v.type = "str" THEN find(v.value, "generated_text", 1) > 0
    ELSE IF v.type = "list"
         THEN \E i \in 1..Len(v.items) :
                 v.items[i].type = "str" /\ v.items[i].value = "generated_text"
    ELSE FALSE

\* v['generated_text'] for a v that has it: the value, or the exception raised
Subscript(v) ==
    IF v.type = "dict" THEN [raised |-> None, value |-> v.value]
    ELSE [raised |-> "TypeError", value |-> None]

NoReturn == [raised |-> None, returns |-> FALSE, value |-> None]
Raise(e) == [raised |-> e, returns |-> FALSE, value |-> None]
Return(v) == [raised |-> None, returns |-> TRUE, value |-> v]

\* main.py:127-132: what the statements under "if response.status_code == 200" do
\* with the body: raise, return a value, or neither
ReadBody(body) ==
    IF body.type = "invalid" THEN Raise("JSONDecodeError")
    ELSE IF body.type = "list"
         THEN IF body.items = <<>> THEN Raise("IndexError")
              ELSE With(body.items[1], LAMBDA first :
                   IF InRaises(first) # None THEN Raise(InRaises(first))
                   ELSE IF ~HasGeneratedText(first) THEN NoReturn
                   ELSE IF Subscript(first).raised # None THEN Raise(Subscript(first).raised)
                   ELSE Return(Subscript(first).value))
    ELSE IF body.type = "dict" /\ HasGeneratedText(body) THEN Return(Subscript(body).value)
    ELSE NoReturn

\* IsException for a handler that catches the exceptions of requests only
IsRequestsExceptionOnly(e) == e \in {"ConnectionError", "Timeout", "JSONDecodeError"}
\* main.py:135: "except Exception" catches every exception raised in the try block
IsException(e) ==
    e \in {"ConnectionError", "Timeout", "JSONDecodeError", "IndexError", "TypeError"}

InitHf ==
    /\ RequestIdle
    /\ ParserIdle
    /\ CaseIdle
    /\ ImgIdle
    /\ hf_key \in BOOLEAN
    /\ hf_text \in HfTexts
    /\ hf_reply = NoReply
    /\ hf_exc = None
    /\ hf_result = None
    /\ hf_pc = "start"

\* main.py:119-120
HfReturnWithoutKey ==
    /\ hf_pc = "start"
    /\ ~hf_key
    /\ hf_result' = hf_text
    /\ hf_pc' = "returned"
    /\ UNCHANGED <<req_vars, ref_vars, case_vars, img_vars, hf_key, hf_text, hf_reply, hf_exc>>

\* main.py:121-125
HfPost ==
    /\ hf_pc = "start"
    /\ hf_key
    /\ \E reply \in Replies :
          /\ hf_reply' = reply
          /\ hf_exc' = reply.raised
          /\ hf_pc' = IF reply.raised # None THEN "raised" ELSE "replied"
    /\ UNCHANGED <<req_vars, ref_vars, case_vars, img_vars, hf_key, hf_text, hf_result>>

\* main.py:126-134
HfReadReply ==
    /\ hf_pc = "replied"
    /\ IF hf_reply.status # HTTP_OK \/ (ReadBody(hf_reply.body).raised = None
                                        /\ ~ReadBody(hf_reply.body).returns)
       THEN hf_result' = hf_text /\ hf_exc' = None /\ hf_pc' = "returned"
       ELSE IF ReadBody(hf_reply.body).raised # None
       THEN hf_result' = None /\ hf_exc' = ReadBody(hf_reply.body).raised /\ hf_pc' = "raised"
       ELSE hf_result' = ReadBody(hf_reply.body).value /\ hf_exc' = None /\ hf_pc' = "returned"
    /\ UNCHANGED <<req_vars, ref_vars, case_vars, img_vars, hf_key, hf_text, hf_reply>>

\* main.py:135-136: the handler returns the text; an exception it does not catch
\* leaves the function
HfExcept ==
    /\ hf_pc = "raised"
    /\ IF IsException(hf_exc)
       THEN hf_result' = hf_text /\ hf_exc' = None /\ hf_pc' = "returned"
       ELSE hf_result' = None /\ hf_exc' = hf_exc /\ hf_pc' = "propagated"
    /\ UNCHANGED <<req_vars, ref_vars, case_vars, img_vars, hf_key, hf_text, hf_reply>>

NextHf == HfReturnWithoutKey \/ HfPost \/ HfReadReply \/ HfExcept

SpecHf == InitHf /\ [][NextHf]_vars

(***************************************************************************)
(* What the documentation states of the clean-up call, checked on SpecHf.  *)
(***************************************************************************)
\* the body has one of the two shapes that carry a generated text: an array whose
\* first item is an object with the key generated_text, or such an object
CarriesGeneratedText(body) ==
    \/ body.type = "dict" /\ "generated_text" \in body.keys
    \/ /\ body.type = "list"
       /\ body.items # <<>>
       /\ body.items[1].type = "dict"
       /\ "generated_text" \in body.items[1].keys

\* the call failed: no key, an exception of requests.post, a status other than 200, or
\* a body of another shape
CleanupFailed ==
    \/ ~hf_key
    \/ hf_reply.raised # None
    \/ hf_reply.status # 200
    \/ ~CarriesGeneratedText(hf_reply.body)

\* C17: when no API key is configured, or the call raises, or returns a status other
\* than 200, or returns a body of unexpected shape (the empty list included), the
\* clean-up call returns the original text unchanged, and no exception leaves it.
C17_FailureAbsorbed ==
    /\ hf_pc # "propagated"
    /\ hf_pc = "returned" => hf_exc = None
    /\ (hf_pc = "returned" /\ CleanupFailed) => hf_result = hf_text

\* the empty list came with status 200, raised IndexError, and the text was returned
C17_Witness ==
    /\ hf_pc = "returned"
    /\ hf_key
    /\ hf_reply.status = 200
    /\ hf_reply.body.type = "list"
    /\ hf_reply.body.items = <<>>
    /\ hf_result = hf_text

(***************************************************************************)
(* The images of the docx body loop, main.py:589-617, for worker processes *)
(* that share one working directory.  Each process renders one uploaded    *)
(* document without tables; the document of process w holds the images     *)
(* Image(w, 0), Image(w, 1), ...  The file temp_img_<index>.png is written *)
(* in one step (open and write), and an exception that leaves the handler  *)
(* ends the request with status 500.                                       *)
(***************************************************************************)
\* the worker processes
NumWorkers == 2
\* the images of an uploaded document
MaxImages == 2
\* the most body paragraphs of an uploaded document
MaxParagraphs == 2

Workers == 1..NumWorkers

\* extracted_images[k] of the document of process w
Image(w, k) == <<w, k>>
\* the content of a file that does not exist
Absent == <<>>

\* the indexes of the names temp_img_<index>.png
ImageNames == 0..(MaxImages - 1)

InitImg ==
    /\ RequestIdle
    /\ ParserIdle
    /\ CaseIdle
    /\ HfIdle
    /\ img_dir = [n \in ImageNames |-> Absent]
    /\ img_pc = [w \in Workers |-> "loop"]
    /\ img_idx = [w \in Workers |-> 0]
    /\ img_left \in [Workers -> 1..MaxParagraphs]
    /\ img_pics = [w \in Workers |-> <<>>]
    /\ img_status = [w \in Workers |-> 0]

\* main.py:590, 610: the next paragraph; without an image left for it, it is rendered
TakeParagraph(w) ==
    /\ img_pc[w] = "loop"
    /\ img_left[w] > 0
    /\ IF img_idx[w] < MaxImages
       THEN img_pc' = [img_pc EXCEPT ![w] = "write"] /\ UNCHANGED img_left
       ELSE img_left' = [img_left EXCEPT ![w] = @ - 1] /\ UNCHANGED img_pc
    /\ UNCHANGED <<req_vars, ref_vars, case_vars, hf_vars, img_dir, img_idx, img_pics, img_status>>

\* main.py:611-614: img_path = f"temp_img_{body_idx}.png"; open(img_path, "wb"); write
WriteImage(w) ==
    /\ img_pc[w] = "write"
    /\ img_dir' = [img_dir EXCEPT ![img_idx[w]] = Image(w, img_idx[w])]
    /\ img_pc' = [img_pc EXCEPT ![w] = "add"]
    /\ UNCHANGED <<req_vars, ref_vars, case_vars, hf_vars, img_idx, img_left, img_pics, img_status>>

\* main.py:615: doc.add_picture(img_path) reads the file; FileNotFoundError without it
AddPicture(w) ==
    /\ img_pc[w] = "add"
    /\ IF img_dir[img_idx[w]] = Absent
       THEN /\ img_status' = [img_status EXCEPT ![w] = 500]
            /\ img_pc' = [img_pc EXCEPT ![w] = "done"]
            /\ UNCHANGED img_pics
       ELSE /\ img_pics' = [img_pics EXCEPT ![w] = Append(@, img_dir[img_idx[w]])]
            /\ img_pc' = [img_pc EXCEPT ![w] = "remove"]
            /\ UNCHANGED img_status
    /\ UNCHANGED <<req_vars, ref_vars, case_vars, hf_vars, img_dir, img_idx, img_left>>

\* main.py:616-617: os.remove(img_path), FileNotFoundError without the file;
\* body_idx += 1, and the paragraph is rendered
RemoveImage(w) ==
    /\ img_pc[w] = "remove"
    /\ IF img_dir[img_idx[w]] = Absent
       THEN /\ img_status' = [img_status EXCEPT ![w] = 500]
            /\ img_pc' = [img_pc EXCEPT ![w] = "done"]
            /\ UNCHANGED <<img_dir, img_idx, img_left>>
       ELSE /\ img_dir' = [img_dir EXCEPT ![img_idx[w]] = Absent]
            /\ img_idx' = [img_idx EXCEPT ![w] = @ + 1]
            /\ img_left' = [img_left EXCEPT ![w] = @ - 1]
            /\ img_pc' = [img_pc EXCEPT ![w] = "loop"]
            /\ UNCHANGED img_status
    /\ UNCHANGED <<req_vars, ref_vars, case_vars, hf_vars, img_pics>>

\* main.py:730-733: the document is returned
Respond(w) ==
    /\ img_pc[w] = "loop"
    /\ img_left[w] = 0
    /\ img_status' = [img_status EXCEPT ![w] = 200]
    /\ img_pc' = [img_pc EXCEPT ![w] = "done"]
    /\ UNCHANGED <<req_vars, ref_vars, case_vars, hf_vars, img_dir, img_idx, img_left, img_pics>>

NextImg ==
    \E w \in Workers :
        \/ TakeParagraph(w)
        \/ WriteImage(w)
        \/ AddPicture(w)
        \/ RemoveImage(w)
        \/ Respond(w)

SpecImg == InitImg /\ [][NextImg]_vars

(***************************************************************************)
(* What the documentation states of concurrent requests, checked on        *)
(* SpecImg.                                                                *)
(***************************************************************************)
\* C19: two requests processed concurrently each produce the result they produce
\* alone: each ends with status 200 and with its own images in its document, in their
\* order; no request reads, overwrites or deletes a temp_img_<index>.png of the other,
\* and no such file remains when the requests have ended.
C19_RequestsIndependent ==
    /\ \A w \in Workers :
          /\ img_pc[w] = "done" => img_status[w] = 200
          /\ \A k \in 1..Len(img_pics[w]) : img_pics[w][k] = Image(w, k - 1)
    /\ (\A w \in Workers : img_pc[w] = "done") => \A n \in ImageNames : img_dir[n] = Absent
====
